---- MODULE Spec2Model ----
(***************************************************************************)
(* Append-only knowledge store with dual buffers and snapshot compaction   *)
(* (src/src/core/knowledge_base.py) and the dedup/merge engine that        *)
(* compacts a snapshot (src/src/core/qa_compactor.py).                     *)
(*                                                                         *)
(* Text is a sequence of one-character strings.  A QAPair is a record      *)
(*   [id, question, answer, timestamp, metadata]; metadata is a function   *)
(* whose domain holds only the keys that are present, as a Python dict.    *)
(* Confidences are counted in tenths (0.7 is 7).                           *)
(***************************************************************************)
EXTENDS Integers, Sequences, FiniteSets, TLC

(* ------------------------------ bounds -------------------------------- *)
\* longest batch handed to the merge engine in SpecDedup / SpecCompact
MaxBatch == 3
\* most lines in one reply of the grouping oracle
MaxReplyLines == 2
\* most tokens after "GROUP:" on one reply line
MaxTokens == 2
\* largest index the grouping oracle names (indices are 0-based)
MaxIndex == 2

(* ------------------------- program constants -------------------------- *)
\* metadata.get('confidence', 0.8), in tenths
DefaultConfidence == 8
\* confidence given to a merged record (0.9), in tenths
MergedConfidence == 9

(* ------------------------------- text --------------------------------- *)
Chars == {"a", "A", "b", " "}

\* str.lower() on one character
LowerChar(c) == IF c = "A" THEN "a" ELSE c

\* str.lower()
Lower(s) == [i \in 1..Len(s) |-> LowerChar(s[i])]

\* the element of a one-element set; {e(x) : x \in {v}} computes v once
\* and hands it to e
Only(S) == CHOOSE x \in S : TRUE

RECURSIVE LStrip(_)
LStrip(s) == IF s # <<>> /\ Head(s) = " " THEN LStrip(Tail(s)) ELSE s

RECURSIVE RStrip(_)
RStrip(s) ==
  IF s # <<>> /\ s[Len(s)] = " " THEN RStrip(SubSeq(s, 1, Len(s) - 1)) ELSE s

\* str.strip()
Strip(s) == RStrip(LStrip(s))

\* question_key = qa.question.strip().lower()
QuestionKey(qa) == Lower(Strip(qa.question))

(* ------------------------------ QAPair -------------------------------- *)
\* QAPair.__post_init__: metadata None becomes {}
EmptyMetadata == [k \in {} |-> 0]

QAPair(id, question, answer, timestamp, metadata) ==
  [id |-> id, question |-> question, answer |-> answer,
   timestamp |-> timestamp, metadata |-> metadata]

\* qa.metadata.get('confidence', 0.8)
Confidence(qa) ==
  IF "confidence" \in DOMAIN qa.metadata
  THEN qa.metadata.confidence
  ELSE DefaultConfidence

\* qa.metadata.get('original_ids', [])
OriginalIds(qa) ==
  IF "original_ids" \in DOMAIN qa.metadata
  THEN qa.metadata.original_ids
  ELSE <<>>

(* --------------------------- list helpers ----------------------------- *)
Range(s) == {s[i] : i \in 1..Len(s)}

\* list.remove(x): drops the first element equal to x
ListRemove(s, x) ==
  IF \E i \in 1..Len(s) : s[i] = x
  THEN Only({SubSeq(s, 1, first - 1) \o SubSeq(s, first + 1, Len(s)) :
               first \in {CHOOSE i \in 1..Len(s) :
                            /\ s[i] = x
                            /\ \A j \in 1..(i - 1) : s[j] # x}})
  ELSE s

\* number of positions of s holding x
Count(s, x) == Cardinality({i \in 1..Len(s) : s[i] = x})

\* all sequences over S of length lo..hi
SeqsOf(S, lo, hi) == UNION {[1..n -> S] : n \in lo..hi}

(* ------------------- QACompactor.detect_exact_duplicates -------------- *)
\* one iteration of the for loop; st = [seen, unique, dups]
DedupStepGE(st, qa) ==
  LET key == QuestionKey(qa) IN
  IF key \in DOMAIN st.seen
  THEN LET existing == st.seen[key] IN
       IF Confidence(qa) >= Confidence(existing)
       THEN [seen   |-> [st.seen EXCEPT ![key] = qa],
             unique |-> Append(ListRemove(st.unique, existing), qa),
             dups   |-> Append(st.dups, existing)]
       ELSE [st EXCEPT !.dups = Append(st.dups, qa)]
  ELSE [seen   |-> [k \in DOMAIN st.seen \cup {key} |->
                      IF k = key THEN qa ELSE st.seen[k]],
        unique |-> Append(st.unique, qa),
        dups   |-> st.dups]

DedupStep(st, qa) ==
  LET key == QuestionKey(qa) IN
  IF key \in DOMAIN st.seen
  THEN LET existing == st.seen[key] IN
       IF Confidence(qa) > Confidence(existing)
       THEN [seen   |-> [st.seen EXCEPT ![key] = qa],
             unique |-> Append(ListRemove(st.unique, existing), qa),
             dups   |-> Append(st.dups, existing)]
       ELSE [st EXCEPT !.dups = Append(st.dups, qa)]
  ELSE [seen   |-> [k \in DOMAIN st.seen \cup {key} |->
                      IF k = key THEN qa ELSE st.seen[k]],
        unique |-> Append(st.unique, qa),
        dups   |-> st.dups]

\* the iterations of the for loop for qa_pairs[lo..hi], in order: those
\* of the first half, then those of the second from where the first end
RECURSIVE DedupLoop(_, _, _, _)
DedupLoop(st, qa_pairs, lo, hi) ==
  IF lo > hi THEN st
  ELSE IF lo = hi THEN DedupStep(st, qa_pairs[lo])
  ELSE Only({DedupLoop(half, qa_pairs, ((lo + hi) \div 2) + 1, hi) :
               half \in {DedupLoop(st, qa_pairs, lo, (lo + hi) \div 2)}})

\* returns [unique, dups] for (unique_qa_pairs, duplicate_qa_pairs)
DetectExactDuplicates(qa_pairs) ==
  Only({[unique |-> st.unique, dups |-> st.dups] :
          st \in {DedupLoop([seen |-> [k \in {} |-> 0], unique |-> <<>>,
                             dups |-> <<>>], qa_pairs, 1,
                            Len(qa_pairs))}})

(* -------- QASimilarityAnalyzer._parse_simple_similarity_response ------ *)
(* A reply is a sequence of lines.  A line is [group, toks]: group says   *)
(* whether the stripped line starts with 'GROUP:', toks are the pieces of *)
(* group_part.split(','); a token is [ok, v]: int(x.strip()) gives v when *)
(* ok and raises ValueError otherwise.                                    *)
Token(ok, v) == [ok |-> ok, v |-> v]

ReplyLine(group, toks) == [group |-> group, toks |-> toks]

\* indices = [int(x.strip()) for x in group_part.split(',')], or ValueError
LineParses(line) == \A k \in 1..Len(line.toks) : line.toks[k].ok

LineIndices(line) == [k \in 1..Len(line.toks) |-> line.toks[k].v]

\* the similar_groups list (each entry is its qa_indices)
RECURSIVE ParsedGroups(_)
ParsedGroups(lines) ==
  IF lines = <<>> THEN <<>>
  ELSE LET line == Head(lines) IN
       (IF line.group /\ LineParses(line) /\ Len(line.toks) >= 2
        THEN <<LineIndices(line)>> ELSE <<>>) \o ParsedGroups(Tail(lines))

\* processed_indices of the parser
ParsedIndices(lines) == UNION {Range(g) : g \in Range(ParsedGroups(lines))}

\* returns [similar_groups, independent_qa]
ParseSimpleSimilarityResponse(lines, n) ==
  [similar_groups |-> ParsedGroups(lines),
   independent_qa |-> {i \in 0..(n - 1) : i \notin ParsedIndices(lines)}]

(* ------------- QASimilarityAnalyzer._find_similar_groups_llm ---------- *)
\* [qa_pairs[i] for i in qa_indices if 0 <= i < len(qa_pairs)]
RECURSIVE GroupOf(_, _)
GroupOf(qa_pairs, qa_indices) ==
  IF qa_indices = <<>> THEN <<>>
  ELSE LET i == Head(qa_indices) IN
       (IF 0 <= i /\ i < Len(qa_pairs) THEN <<qa_pairs[i + 1]>> ELSE <<>>)
       \o GroupOf(qa_pairs, Tail(qa_indices))

\* the groups built from similar_groups_data (only those with len > 1)
RECURSIVE LLMGroups(_, _)
LLMGroups(qa_pairs, groups_data) ==
  IF groups_data = <<>> THEN <<>>
  ELSE LET group == GroupOf(qa_pairs, Head(groups_data)) IN
       (IF Len(group) > 1 THEN <<group>> ELSE <<>>)
       \o LLMGroups(qa_pairs, Tail(groups_data))

\* indices discarded from independent_qa_indices
RECURSIVE LLMDiscarded(_, _)
LLMDiscarded(qa_pairs, groups_data) ==
  IF groups_data = <<>> THEN {}
  ELSE (IF Len(GroupOf(qa_pairs, Head(groups_data))) > 1
        THEN Range(Head(groups_data)) ELSE {})
       \cup LLMDiscarded(qa_pairs, Tail(groups_data))

\* the elements of a set of integers as a list, in increasing order
RECURSIVE Ascending(_)
Ascending(S) ==
  IF S = {} THEN <<>>
  ELSE LET m == CHOOSE x \in S : \A y \in S : x <= y
       IN <<m>> \o Ascending(S \ {m})

\* first index (0-based) whose record has this id; -1 when there is none
FirstIndexOfId(qa_pairs, id) ==
  IF \E k \in 1..Len(qa_pairs) : qa_pairs[k].id = id
  THEN (CHOOSE k \in 1..Len(qa_pairs) :
          /\ qa_pairs[k].id = id
          /\ \A j \in 1..(k - 1) : qa_pairs[j].id # id) - 1
  ELSE 0 - 1

\* [[qa_pairs[i]] for i in idx]
SingleGroups(qa_pairs, idx) == [k \in 1..Len(idx) |-> <<qa_pairs[idx[k] + 1]>>]

RECURSIVE MultiFirst(_)
MultiFirst(groups) ==
  IF groups = <<>> THEN <<>>
  ELSE (IF Len(Head(groups)) > 1 THEN <<Head(groups)>> ELSE <<>>)
       \o MultiFirst(Tail(groups))

RECURSIVE SinglesOf(_)
SinglesOf(groups) ==
  IF groups = <<>> THEN <<>>
  ELSE (IF Len(Head(groups)) = 1 THEN <<Head(groups)>> ELSE <<>>)
       \o SinglesOf(Tail(groups))

\* the groups _find_similar_groups_llm builds from the group_analysis of
\* a similarity result: similar_groups + single_groups
GroupsFromAnalysis(qa_pairs, parsed) ==
  LET n        == Len(qa_pairs)
      multi    == LLMGroups(qa_pairs, parsed.similar_groups)
      indep    == {i \in parsed.independent_qa \
                       LLMDiscarded(qa_pairs, parsed.similar_groups) :
                     0 <= i /\ i < n}
      groups   == multi \o SingleGroups(qa_pairs, Ascending(indep))
      done     == {FirstIndexOfId(qa_pairs, qa.id) :
                     qa \in UNION {Range(g) : g \in Range(groups)}}
      missing  == {i \in 0..(n - 1) : i \notin done}
      all      == groups \o SingleGroups(qa_pairs, Ascending(missing))
  IN MultiFirst(all) \o SinglesOf(all)

\* _find_similar_groups_llm when the oracle call returned reply
FindSimilarGroupsLLM(qa_pairs, reply) ==
  GroupsFromAnalysis(qa_pairs,
                     ParseSimpleSimilarityResponse(reply, Len(qa_pairs)))

\* QASimilarityAnalyzer.find_similar_groups with use_llm = True and a batch
\* within max_full_context_size
FindSimilarGroups(qa_pairs, reply) ==
  IF qa_pairs = <<>> THEN <<>>
  ELSE IF Len(qa_pairs) = 1 THEN <<qa_pairs>>
  ELSE FindSimilarGroupsLLM(qa_pairs, reply)

(* ------------- difflib.SequenceMatcher(None, a, b).ratio() ------------ *)
\* a[i .. i+k-1] = b[j .. j+k-1], positions counted from 1
IsMatch(a, b, i, j, k) ==
  /\ k >= 1 /\ i >= 1 /\ j >= 1
  /\ i + k - 1 <= Len(a) /\ j + k - 1 <= Len(b)
  /\ \A d \in 0..(k - 1) : a[i + d] = b[j + d]

\* block m is preferred to block n: longer, or as long and starting
\* earlier in a, or also starting there and earlier in b
Preferred(m, n) ==
  \/ m.k > n.k
  \/ m.k = n.k /\ m.i < n.i
  \/ m.k = n.k /\ m.i = n.i /\ m.j <= n.j

\* find_longest_match over the whole of a and b: the longest block, the
\* one that starts earliest in a, and among those earliest in b; k = 0
\* when no character matches (texts here are far shorter than the 200
\* characters at which the autojunk heuristic starts)
FindLongestMatch(a, b) ==
  Only({(IF blocks = {} THEN [i |-> 1, j |-> 1, k |-> 0]
         ELSE CHOOSE m \in blocks : \A n \in blocks : Preferred(m, n)) :
        blocks \in {{[i |-> x[1], j |-> x[2], k |-> x[3]] :
                      x \in {y \in (1..Len(a)) \X (1..Len(b)) \X (1..Len(a)) :
                               IsMatch(a, b, y[1], y[2], y[3])}}}})

\* sum of the sizes of get_matching_blocks(): the longest match, then the
\* pieces to its left and to its right
RECURSIVE Matches(_, _)
Matches(a, b) ==
  Only({(IF m.k = 0 THEN 0
         ELSE m.k
              + Matches(SubSeq(a, 1, m.i - 1), SubSeq(b, 1, m.j - 1))
              + Matches(SubSeq(a, m.i + m.k, Len(a)),
                        SubSeq(b, m.j + m.k, Len(b)))) :
        m \in {FindLongestMatch(a, b)}})

\* ratio() as the fraction num / den: 2.0 * matches / length, 1.0 when
\* both texts are empty
Ratio(a, b) ==
  IF Len(a) + Len(b) = 0 THEN [num |-> 1, den |-> 1]
  ELSE [num |-> 2 * Matches(a, b), den |-> Len(a) + Len(b)]

(* ------------ QASimilarityAnalyzer.calculate_semantic_similarity ------ *)
\* calculate_text_similarity
CalculateTextSimilarity(text1, text2) == Ratio(Lower(text1), Lower(text2))

\* set(qa.metadata.get('keywords', []))
Keywords(qa) ==
  IF "keywords" \in DOMAIN qa.metadata THEN Range(qa.metadata.keywords) ELSE {}

\* qa.metadata.get('category'); "None" stands for None
Category(qa) ==
  IF "category" \in DOMAIN qa.metadata THEN qa.metadata.category ELSE "None"

\* keyword_overlap as a fraction
KeywordOverlap(qa1, qa2) ==
  IF Keywords(qa1) # {} /\ Keywords(qa2) # {}
  THEN [num |-> Cardinality(Keywords(qa1) \cap Keywords(qa2)),
        den |-> Cardinality(Keywords(qa1) \cup Keywords(qa2))]
  ELSE [num |-> 0, den |-> 1]

\* category_match: 1.0 or 0.0
CategoryMatch(qa1, qa2) == IF Category(qa1) = Category(qa2) THEN 1 ELSE 0

\* min(f, 1.0) of a fraction
CapAtOne(f) == IF f.num > f.den THEN [num |-> 1, den |-> 1] ELSE f

\* (question_sim * 0.6 + answer_sim * 0.4 + keyword_overlap * 0.3 +
\*  category_match * 0.2) / 1.5, capped at 1.0, as an exact fraction
CalculateSemanticSimilarity(qa1, qa2) ==
  Only({CapAtOne(f) :
        f \in {[num |-> 6 * q.num * a.den * kw.den + 4 * a.num * q.den * kw.den
                        + 3 * kw.num * q.den * a.den
                        + 2 * cat * q.den * a.den * kw.den,
                den |-> 15 * q.den * a.den * kw.den] :
               q \in {CalculateTextSimilarity(qa1.question, qa2.question)},
               a \in {CalculateTextSimilarity(qa1.answer, qa2.answer)},
               kw \in {KeywordOverlap(qa1, qa2)},
               cat \in {CategoryMatch(qa1, qa2)}}})

\* similarity >= 0.75
IsSimilar(qa1, qa2) ==
  \E r \in {CalculateSemanticSimilarity(qa1, qa2)} : 4 * r.num >= 3 * r.den

(* ------------ QASimilarityAnalyzer._fallback_similarity_analysis ------ *)
\* the grouping loop from index i on (0-based): returns the qa_indices of
\* the groups with more than one member, and the processed set
RECURSIVE FallbackLoop(_, _, _)
FallbackLoop(qa_pairs, i, processed) ==
  IF i >= Len(qa_pairs) THEN [groups |-> <<>>, processed |-> processed]
  ELSE IF i \in processed THEN FallbackLoop(qa_pairs, i + 1, processed)
  ELSE Only({Only({[groups    |-> (IF members # {}
                                   THEN <<(<<i>> \o Ascending(members))>>
                                   ELSE <<>>) \o rest.groups,
                    processed |-> rest.processed] :
                   rest \in {FallbackLoop(qa_pairs, i + 1,
                                          processed \cup {i} \cup members)}}) :
             members \in {{j \in (i + 1)..(Len(qa_pairs) - 1) :
                             /\ j \notin processed
                             /\ IsSimilar(qa_pairs[i + 1], qa_pairs[j + 1])}}})

\* returns [similar_groups, independent_qa]
FallbackSimilarityAnalysis(qa_pairs) ==
  Only({[similar_groups |-> r.groups,
         independent_qa |-> {i \in 0..(Len(qa_pairs) - 1) :
                               i \notin r.processed}] :
        r \in {FallbackLoop(qa_pairs, 0, {})}})

\* QASimilarityAnalyzer.find_similar_groups when the oracle call of
\* calculate_llm_similarity_batch raises
FindSimilarGroupsOracleDown(qa_pairs) ==
  IF qa_pairs = <<>> THEN <<>>
  ELSE IF Len(qa_pairs) = 1 THEN <<qa_pairs>>
  ELSE GroupsFromAnalysis(qa_pairs, FallbackSimilarityAnalysis(qa_pairs))

(* ------------------ QACompactor.merge_similar_qa_pairs ---------------- *)
\* what the merge oracle call and the parse of its reply give: ok = FALSE
\* when the call raised or no Q:/A: pair was found
MergeReply(ok, question, answer) ==
  [ok |-> ok, question |-> question, answer |-> answer]

NoMergeReply == MergeReply(FALSE, <<>>, <<>>)

\* [qa.id for qa in original_qa_pairs]
IdsOf(qa_pairs) == [k \in 1..Len(qa_pairs) |-> qa_pairs[k].id]

\* a merged record naming the first member only
MergedQAPairFirstOnly(group, question, answer, newId, now) ==
  QAPair(newId, question, answer, now,
         [category       |-> "merged",
          keywords       |-> <<>>,
          confidence     |-> MergedConfidence,
          original_count |-> Len(group),
          original_ids   |-> IF group = <<>> THEN <<>> ELSE <<group[1].id>>])

\* the merged record of _parse_simple_merge_response
MergedQAPair(group, question, answer, newId, now) ==
  QAPair(newId, question, answer, now,
         [category       |-> "merged",
          keywords       |-> <<>>,
          confidence     |-> MergedConfidence,
          original_count |-> Len(group),
          original_ids   |-> IdsOf(group)])

\* returns [none, qa]: none = TRUE stands for None
MergeSimilarQAPairs(group, mreply, newId, now) ==
  IF Len(group) <= 1 THEN [none |-> FALSE, qa |-> group[1]]
  ELSE IF mreply.ok /\ mreply.question # <<>> /\ mreply.answer # <<>>
  THEN [none |-> FALSE,
        qa |-> MergedQAPair(group, mreply.question, mreply.answer, newId, now)]
  ELSE [none |-> TRUE, qa |-> group[1]]

(* ----------------- QACompactor._parse_simple_merge_response ----------- *)
(* response_text is a sequence of stripped lines [kind, text]: kind "Q"   *)
(* or "A" for a line that starts with 'Q:' or 'A:', text being the rest   *)
(* of it stripped; kind "other" for any other non-empty line, text being  *)
(* the line; kind "blank" for an empty line.                              *)
MergeLine(kind, text) == [kind |-> kind, text |-> text]

\* merged_question = None, merged_answer = None
NothingParsed == [q_set |-> FALSE, q |-> <<>>, a_set |-> FALSE, a |-> <<>>]

\* one iteration of `for line in lines`
MergeParseStep(st, line) ==
  IF line.kind = "blank" THEN st
  ELSE IF line.kind = "Q" THEN [st EXCEPT !.q_set = TRUE, !.q = line.text]
  ELSE IF line.kind = "A" THEN [st EXCEPT !.a_set = TRUE, !.a = line.text]
  ELSE IF st.a_set THEN [st EXCEPT !.a = st.a \o <<" ">> \o line.text]
  ELSE st

RECURSIVE MergeParseLoop(_, _)
MergeParseLoop(st, lines) ==
  IF lines = <<>> THEN st
  ELSE MergeParseLoop(MergeParseStep(st, Head(lines)), Tail(lines))

\* returns [none, qa]: none = TRUE stands for None
ParseSimpleMergeResponse(lines, original_qa_pairs, newId, now) ==
  Only({IF st.q # <<>> /\ st.a # <<>>
        THEN [none |-> FALSE,
              qa |-> MergedQAPair(original_qa_pairs, st.q, st.a, newId, now)]
        ELSE [none |-> TRUE, qa |-> [id |-> 0]] :
        st \in {MergeParseLoop(NothingParsed, lines)}})

(* ---------------------- QACompactor.compact_qa_pairs ------------------ *)
CompactedItemLast(group, mreply, newId, now) ==
  IF Len(group) > 1
  THEN (IF MergeSimilarQAPairs(group, mreply, newId, now).none
        THEN group[Len(group)]
        ELSE MergeSimilarQAPairs(group, mreply, newId, now).qa)
  ELSE group[1]

\* one iteration of `for group in similar_groups`: the item appended to
\* compacted_qa_pairs
CompactedItem(group, mreply, newId, now) ==
  IF Len(group) > 1
  THEN MergeSimilarQAPairs(group, mreply, newId, now).qa
  ELSE group[1]

\* did this iteration count in merged_groups_count
CountsAsMerged(group, mreply) ==
  Len(group) > 1 /\ ~MergeSimilarQAPairs(group, mreply, 0, 0).none

\* the whole loop with one merge reply per group; ids and timestamps of
\* merged records are taken from base, base + 1, ...
RECURSIVE CompactLoop(_, _, _)
CompactLoop(groups, mreplies, base) ==
  IF groups = <<>> THEN <<>>
  ELSE <<CompactedItem(Head(groups), Head(mreplies), base, base)>>
       \o CompactLoop(Tail(groups), Tail(mreplies), base + 1)

\* compacted_qa_pairs of a successful compact_qa_pairs
CompactQAPairs(qa_pairs, reply, mreplies, base) ==
  Only({CompactLoop(groups, mreplies, base) :
          groups \in {FindSimilarGroups(DetectExactDuplicates(qa_pairs).unique,
                                        reply)}})

(* -------------------------------- state ------------------------------- *)
\* DualBufferKnowledgeBase
VARIABLES
  buffer_a,          \* self.buffer_a
  buffer_b,          \* self.buffer_b
  active_buffer,     \* self.active_buffer: "A" or "B"
  snapshot_offset,   \* self.snapshot_offset
  current_snapshot,  \* self.current_snapshot, or NoSnapshot
  stats,             \* self.stats
  kb_file,           \* records held by the durable knowledge file
  write_lock,        \* holder of self.write_lock, or Free
  compact_lock,      \* holder of self.compact_lock, or Free
  switch_lock,       \* holder of self.switch_lock, or Free
  next_id,           \* source of uuid4() ids and of datetime.now()
  w_pc,              \* position of each thread calling append_qa_pairs
  w_loc,             \* its locals: qa_pairs, auto_save, active_buffer
  p_pc,              \* position of each thread running a compaction pass
  p_loc              \* its locals

\* history of the calls, read by the properties only
VARIABLES
  h_appended,        \* records whose append_qa_pairs has returned True
  h_win,             \* per pass: records appended by calls that began
                     \* after its create_snapshot returned
  h_in,              \* per writer: passes whose window was open when its
                     \* call began
  h_quiet,           \* per pass: no append overlapped its store calls
  h_overlap,         \* some pass took its snapshot during another pass
  h_pre,             \* per pass: the store as its switch call found it
  h_runs             \* passes started so far

\* QACompactor.compact_qa_pairs
VARIABLES
  cq_pc,       \* "input", "deduped", "merging", "done"
  cq_input,    \* qa_pairs handed to the call
  cq_unique,   \* unique_qa_pairs
  cq_dups,     \* duplicates
  cq_groups,   \* similar_groups
  cq_i,        \* number of groups the merge loop has gone through
  cq_out,      \* compacted_qa_pairs
  cq_merged,   \* merged_groups_count
  cq_result    \* the returned dict, or NoResult

kbVars == <<buffer_a, buffer_b, active_buffer, snapshot_offset,
            current_snapshot, stats, kb_file, write_lock, compact_lock,
            switch_lock, next_id, w_pc, w_loc, p_pc, p_loc>>

hVars == <<h_appended, h_win, h_in, h_quiet, h_overlap, h_pre, h_runs>>

storeVars == <<kbVars, hVars>>

cqVars == <<cq_pc, cq_input, cq_unique, cq_dups, cq_groups, cq_i, cq_out,
            cq_merged, cq_result>>

\* AsyncLLMProcessor
VARIABLES
  ap_running,    \* self.running
  ap_queue,      \* self.task_queue: tasks [task_id, retries], oldest first
  ap_active,     \* self.active_tasks: task_id -> future
  ap_completed,  \* keys of self.completed_tasks
  ap_failed,     \* keys of self.failed_tasks
  ap_fut,        \* the futures of self.executor, in submission order
  ap_shutdown,   \* self.executor.shutdown() has been called
  ap_submitted,  \* self.stats['total_submitted']
  d_pc,          \* position of the worker thread in _worker_loop
  d_task,        \* the task it holds between get() and dispatch
  c_pc,          \* position of the thread calling wait_for_all_tasks / stop
  c_drain,       \* wait_for_completion of its stop call
  c_result       \* status returned by its last wait_for_all_tasks

\* what submit_task was given, and what became of it
VARIABLES
  ap_args,       \* task_id -> priority and callback of its submit_task
  ap_called,     \* ids of the tasks whose callback has been invoked
  d_behind       \* ids waiting in the queue when d_task was taken from it

\* the timeout of wait_for_all_tasks
VARIABLES
  c_timed,       \* timeout is not None
  c_timeout,     \* timeout, in sleeps of the loop (0 when None)
  c_elapsed      \* time.time() - start_time, in sleeps of the loop

waitVars == <<c_timed, c_timeout, c_elapsed>>

argVars == <<ap_args, ap_called, d_behind, waitVars>>

apVars == <<ap_running, ap_queue, ap_active, ap_completed, ap_failed, ap_fut,
            ap_shutdown, ap_submitted, d_pc, d_task, c_pc, c_drain, c_result,
            argVars>>

\* CompactionScheduler._check_and_compact
VARIABLES
  sch_pc,       \* "check" before the cycle, "done" after it
  sch_total,    \* kb_stats['total_qa_pairs']
  sch_active,   \* kb_stats['active_buffer_size']
  sch_last,     \* minutes since compaction_stats['last_compaction_time'],
                \* or NeverCompacted
  sch_started   \* the cycle went on to create_snapshot

schVars == <<sch_pc, sch_total, sch_active, sch_last, sch_started>>

\* file processing status and the callers of process_cleaned_file
VARIABLES
  file_status_map,  \* self.file_status_map: source id -> status
  status_file,      \* the ledger self.status_file holds on disk
  x_pc,             \* per caller: "idle", or "extract" inside the extractor
  x_file,           \* per caller: file_path of the call in progress
  x_result          \* per caller: what its last call returned

fsVars == <<file_status_map, status_file, x_pc, x_file, x_result>>

\* save() and the cross-process lock of the knowledge file
VARIABLES
  flock,        \* holder of the lock file: "free", or "other" (process)
  sv_pc,        \* "idle", or "locking" while save() waits for the lock
  sv_content,   \* the records save() is about to write
  sv_result,    \* what the last save() returned: "none", "True", "False"
  sv_timeout    \* the last _save_to_file logged a lock timeout

svVars == <<flock, sv_pc, sv_content, sv_result, sv_timeout>>

\* cleanup()
VARIABLES
  cl_calls,     \* calls of cleanup() so far
  cl_failed,    \* some call so far could not persist the records or ledger
  cl_last       \* the last call: "none", "saved", "failed" or "raised"

clVars == <<cl_calls, cl_failed, cl_last>>

\* CompactionScheduler: its loop thread and stop request
VARIABLES
  sl_running,   \* self.is_running
  sl_stop,      \* self.stop_event is set
  sl_pc,        \* the loop thread: "none", "loop", "wait", "check", "pass"
                \* or "exited"
  sl_stats,     \* compaction_attempts, successful_compactions,
                \* failed_compactions
  sl_result,    \* compaction_result of the cycle in progress
  sl_min,       \* self.min_inactive_buffer_size
  sl_compacted  \* compaction_stats['last_compaction_time'] is set

slVars == <<sl_running, sl_stop, sl_pc, sl_stats, sl_result, sl_min,
            sl_compacted>>

\* KnowledgeProcessor.shutdown
VARIABLES
  sd_pc,        \* "idle", "final", "pass", "stop_scheduler",
                \* "stop_monitoring", "cleanup", "except", "done"
  sd_log,       \* the calls shutdown has made, in order
  sd_final,     \* outcome of _perform_final_compaction, "none" before it
  sd_auto,      \* self.enable_auto_compaction
  sd_scheduler, \* self.compaction_scheduler is not None
  sd_monitor    \* self.system_monitor is not None

sdVars == <<sd_pc, sd_log, sd_final, sd_auto, sd_scheduler, sd_monitor>>

\* the components modelled after the store, the merge engine, the task
\* processor, the scheduler check, the ledger and save()
\* QASimilarityAnalyzer.find_similar_groups
VARIABLES
  g_input,      \* qa_pairs handed to the call
  g_reply,      \* the reply of the grouping oracle
  g_groups,     \* the returned groups
  g_done        \* the call has returned

grVars == <<g_input, g_reply, g_groups, g_done>>

\* QACompactor._parse_simple_merge_response
VARIABLES
  m_group,      \* original_qa_pairs handed to the call
  m_reply,      \* response_text, as its lines
  m_out,        \* what the call returned: [none, qa]
  m_done        \* the call has returned

mgVars == <<m_group, m_reply, m_out, m_done>>

\* FileLockManager.file_lock on one lock path
VARIABLES
  fl_pc,        \* per caller: "idle", "trying" or "block"
  fl_exclusive, \* per caller: the exclusive argument of its call
  fl_left,      \* per caller: attempts left before time.time() - start_time
                \* reaches timeout
  fl_held,      \* per caller: the flock its file object holds:
                \* "none", "EX" or "SH"
  fl_registry,  \* _active_locks, as the set of callers with an entry
  fl_result,    \* per caller: how its last call ended
  fl_entered    \* per caller: its current call has yielded

flVars == <<fl_pc, fl_exclusive, fl_left, fl_held, fl_registry, fl_result,
            fl_entered>>

\* DualBufferKnowledgeBase._save_to_file, file by file, for several
\* writers of one knowledge base path
VARIABLES
  as_pc,        \* per writer: "idle", "locking", "open", "write", "rename",
                \* "unlock" or "except"
  as_left,      \* per writer: attempts left before file_lock times out
  as_lock,      \* the writer whose file object holds the flock, 0 for none
  as_temp,      \* the file at <path>.tmp: NoFile or an image
  as_fd,        \* per writer: its open temp file is still the one at
                \* <path>.tmp
  as_kb,        \* the file at <path>: an image
  as_raised,    \* per writer: an exception is on its way to the handler
  as_result     \* per writer: how its last _save_to_file went

asVars == <<as_pc, as_left, as_lock, as_temp, as_fd, as_kb, as_raised,
            as_result>>

\* AsyncLLMProcessor._cleanup_completed_tasks, task by task, in the
\* threads that call it
VARIABLES
  cu_active,    \* keys of active_tasks
  cu_done,      \* tasks whose future is done with a result
  cu_completed, \* keys of completed_tasks
  cu_total,     \* stats['total_completed']
  cu_calls,     \* per task: how often its callback has been invoked
  cu_pc,        \* per thread: "idle" or "loop"
  cu_items,     \* per thread: what is left of list(active_tasks.items())
  cu_ids        \* per thread: completed_task_ids

cuVars == <<cu_active, cu_done, cu_completed, cu_total, cu_calls, cu_pc,
            cu_items, cu_ids>>

\* a store persisted to the knowledge file and loaded by a new store
VARIABLES
  rt_pc,        \* "store": rt_buffer is current; "file": rt_file is written
  rt_buffer,    \* buffer_a of the store (buffer_b is empty)
  rt_file,      \* the lines of the knowledge file
  rt_trips,     \* loads done
  rt_orig,      \* the records of the first store
  rt_prev       \* the records of the store before the last load

rtVars == <<rt_pc, rt_buffer, rt_file, rt_trips, rt_orig, rt_prev>>

lateVars == <<flVars, asVars, cuVars, rtVars>>

restVars == <<clVars, slVars, sdVars, grVars, mgVars, lateVars>>

\* the state of the components other than the store and the merge engine
auxVars == <<apVars, schVars, fsVars, svVars, restVars>>

vars == <<storeVars, cqVars, auxVars>>

(* ====================== DualBufferKnowledgeBase ======================= *)
\* most records handed to append_qa_pairs over a run
MaxRecords == 2
\* most compaction passes started over a run
MaxPasses == 2

\* threads calling append_qa_pairs
Writers == {"w1", "w2"}

\* threads running a compaction pass: the scheduler's _check_and_compact
\* and KnowledgeProcessor.trigger_compaction
Passes == {"sched", "manual"}

Free == "free"

\* BufferSnapshot; owner stands for the identity of the object
BufferSnapshot(buffer_data, offset, owner) ==
  [data |-> buffer_data, offset |-> offset, owner |-> owner]

\* self.current_snapshot = None
NoSnapshot == BufferSnapshot(<<>>, 0, "none")

Other(name) == IF name = "A" THEN "B" ELSE "A"

\* the list object behind a buffer name
BufOf(name, a, b) == IF name = "A" THEN a ELSE b

Buf(name) == BufOf(name, buffer_a, buffer_b)

\* _get_active_buffer / _get_inactive_buffer
GetActiveBuffer == Buf(active_buffer)

GetInactiveBuffer == Buf(Other(active_buffer))

\* list.sort(key=lambda qa: qa.timestamp) is stable
\* qa goes in front of the first record with a later timestamp
InsertByTimestamp(sorted, qa) ==
  Only({SubSeq(sorted, 1, before) \o <<qa>>
          \o SubSeq(sorted, before + 1, Len(sorted)) :
        before \in {Cardinality({i \in 1..Len(sorted) :
                        \A j \in 1..i :
                          sorted[j].timestamp <= qa.timestamp})}})

\* the records qa_pairs[lo..hi] inserted in order: the first half, then
\* the second into what the first gave
RECURSIVE SortLoop(_, _, _, _)
SortLoop(sorted, qa_pairs, lo, hi) ==
  IF lo > hi THEN sorted
  ELSE IF lo = hi THEN InsertByTimestamp(sorted, qa_pairs[lo])
  ELSE Only({SortLoop(half, qa_pairs, ((lo + hi) \div 2) + 1, hi) :
               half \in {SortLoop(sorted, qa_pairs, lo, (lo + hi) \div 2)}})

SortByTimestamp(qa_pairs) == SortLoop(<<>>, qa_pairs, 1, Len(qa_pairs))

\* the records _save_to_file writes
SavedImage(a, b) == SortByTimestamp(a \o b)

\* _save_to_file: ok = FALSE when the file lock times out or the write
\* raises; the exception is logged and swallowed
SaveToFile(ok, a, b) == IF ok THEN SavedImage(a, b) ELSE kb_file

\* tail_data of switch_buffers_with_tail_sync, dropping one record too many
TailDataSkipsOne(buf, offset) ==
  IF offset + 1 < Len(buf) THEN SubSeq(buf, offset + 2, Len(buf)) ELSE <<>>

\* tail_data = current_active_buffer[self.snapshot_offset:]
\*             if self.snapshot_offset < len(current_active_buffer) else []
TailData(buf, offset) ==
  IF offset < Len(buf) THEN SubSeq(buf, offset + 1, Len(buf)) ELSE <<>>

\* question text of the appended record with this id
StoreQuestion(id) == IF id % 2 = 1 THEN <<"a">> ELSE <<"b">>

\* the answer text of the records appended to the store
StoreAnswer == <<"a">>

\* replies of the grouping oracle during a pass
StoreReplies ==
  {<<>>, <<ReplyLine(TRUE, <<Token(TRUE, 0), Token(TRUE, 1)>>)>>}

\* replies of the merge oracle
MergeReplies == {NoMergeReply, MergeReply(TRUE, <<"b">>, <<"b">>)}

WIdleLoc == [qa_pairs |-> <<>>, auto_save |-> FALSE, ref |-> "A"]

PIdleLoc ==
  [snapshot |-> NoSnapshot, ref |-> "A", merged |-> <<>>, new_data |-> <<>>,
   old_active |-> "A", result |-> FALSE]

NoPre ==
  [buffer_a |-> <<>>, buffer_b |-> <<>>, active_buffer |-> "A",
   current_snapshot |-> NoSnapshot, snapshot_offset |-> 0, kb_file |-> <<>>]

\* records handed to append_qa_pairs so far
RecordsHanded ==
  Len(h_appended)
  + Cardinality({x \in Writers \X (1..MaxRecords) :
                   x[2] <= Len(w_loc[x[1]].qa_pairs)})

\* pass p is past its create_snapshot and has not left its switch
InWindow(p) ==
  p_pc[p] \in {"compact", "switch", "x_clear", "x_extend", "x_reset", "x_save"}

\* pass p is inside create_snapshot or switch_buffers_with_tail_sync
InStoreCall(p) ==
  p_pc[p] \in {"snap_offset", "x_clear", "x_extend", "x_reset", "x_save"}

\* DualBufferKnowledgeBase.__init__ with no knowledge file on disk
InitStore ==
  /\ buffer_a = <<>>
  /\ buffer_b = <<>>
  /\ active_buffer = "A"
  /\ snapshot_offset = 0
  /\ current_snapshot = NoSnapshot
  /\ stats = [total_qa_pairs |-> 0, total_writes |-> 0, total_compacts |-> 0,
              active_buffer_size |-> 0, inactive_buffer_size |-> 0]
  /\ kb_file = <<>>
  /\ write_lock = Free
  /\ compact_lock = Free
  /\ switch_lock = Free
  /\ next_id = 1
  /\ w_pc = [w \in Writers |-> "idle"]
  /\ w_loc = [w \in Writers |-> WIdleLoc]
  /\ p_pc = [p \in Passes |-> "idle"]
  /\ p_loc = [p \in Passes |-> PIdleLoc]
  /\ h_appended = <<>>
  /\ h_win = [p \in Passes |-> <<>>]
  /\ h_in = [w \in Writers |-> {}]
  /\ h_quiet = [p \in Passes |-> FALSE]
  /\ h_overlap = FALSE
  /\ h_pre = [p \in Passes |-> NoPre]
  /\ h_runs = 0

(* ------------------------- append_qa_pairs ---------------------------- *)
\* the call with a non-empty list, up to `active_buffer =
\* self._get_active_buffer()` under the write lock
AppendEnter(w) ==
  /\ w_pc[w] = "idle"
  /\ write_lock = Free
  /\ \E n \in 1..2 :
       /\ RecordsHanded + n <= MaxRecords
       /\ w_loc' = [w_loc EXCEPT ![w] =
            [qa_pairs  |-> [k \in 1..n |->
                             QAPair(next_id + k - 1, StoreQuestion(next_id + k - 1),
                                    StoreAnswer,
                                    next_id + k - 1, EmptyMetadata)],
             auto_save |-> TRUE,
             ref       |-> active_buffer]]
       /\ next_id' = next_id + n
  /\ write_lock' = w
  /\ w_pc' = [w_pc EXCEPT ![w] = "extend"]
  /\ h_in' = [h_in EXCEPT ![w] = {p \in Passes : InWindow(p)}]
  /\ h_quiet' = [p \in Passes |-> h_quiet[p] /\ ~InStoreCall(p)]
  /\ UNCHANGED <<buffer_a, buffer_b, active_buffer, snapshot_offset,
                 current_snapshot, stats, kb_file, compact_lock, switch_lock,
                 p_pc, p_loc, h_appended, h_win, h_overlap, h_pre, h_runs>>
  /\ UNCHANGED <<cqVars, auxVars>>

\* active_buffer.extend(qa_pairs)
AppendExtend(w) ==
  /\ w_pc[w] = "extend"
  /\ buffer_a' = IF w_loc[w].ref = "A"
                 THEN buffer_a \o w_loc[w].qa_pairs ELSE buffer_a
  /\ buffer_b' = IF w_loc[w].ref = "B"
                 THEN buffer_b \o w_loc[w].qa_pairs ELSE buffer_b
  /\ w_pc' = [w_pc EXCEPT ![w] = "finish"]
  /\ UNCHANGED <<active_buffer, snapshot_offset, current_snapshot, stats,
                 kb_file, write_lock, compact_lock, switch_lock, next_id,
                 w_loc, p_pc, p_loc>>
  /\ UNCHANGED <<hVars, cqVars, auxVars>>

\* the stats update, the optional _save_to_file, and `return True`
AppendFinish(w) ==
  /\ w_pc[w] = "finish"
  /\ stats' = [stats EXCEPT
                 !.total_writes = @ + 1,
                 !.active_buffer_size = Len(Buf(w_loc[w].ref)),
                 !.total_qa_pairs = @ + Len(w_loc[w].qa_pairs)]
  /\ \E ok \in BOOLEAN :
       kb_file' = IF w_loc[w].auto_save
                  THEN SaveToFile(ok, buffer_a, buffer_b) ELSE kb_file
  /\ write_lock' = Free
  /\ w_pc' = [w_pc EXCEPT ![w] = "idle"]
  /\ w_loc' = [w_loc EXCEPT ![w] = WIdleLoc]
  /\ h_appended' = h_appended \o w_loc[w].qa_pairs
  /\ h_win' = [p \in Passes |->
                 IF p \in h_in[w] /\ InWindow(p)
                 THEN h_win[p] \o w_loc[w].qa_pairs ELSE h_win[p]]
  /\ h_in' = [h_in EXCEPT ![w] = {}]
  /\ UNCHANGED <<buffer_a, buffer_b, active_buffer, snapshot_offset,
                 current_snapshot, compact_lock, switch_lock, next_id,
                 p_pc, p_loc, h_quiet, h_overlap, h_pre, h_runs>>
  /\ UNCHANGED <<cqVars, auxVars>>

(* -------------------------- create_snapshot --------------------------- *)
\* snapshot = BufferSnapshot(active_buffer, len(active_buffer));
\* self.current_snapshot = snapshot              (under the compact lock)
SnapshotCopy(p) ==
  /\ p_pc[p] = "idle"
  /\ h_runs < MaxPasses
  /\ compact_lock = Free
  /\ compact_lock' = p
  /\ LET snap == BufferSnapshot(GetActiveBuffer, Len(GetActiveBuffer), p) IN
       /\ current_snapshot' = snap
       /\ p_loc' = [p_loc EXCEPT ![p] =
                      [PIdleLoc EXCEPT !.snapshot = snap, !.ref = active_buffer]]
  /\ p_pc' = [p_pc EXCEPT ![p] = "snap_offset"]
  /\ h_runs' = h_runs + 1
  /\ h_quiet' = [h_quiet EXCEPT ![p] = \A w \in Writers : w_pc[w] = "idle"]
  /\ h_overlap' = (h_overlap \/ \E q \in Passes \ {p} : p_pc[q] # "idle")
  /\ UNCHANGED <<buffer_a, buffer_b, active_buffer, snapshot_offset, stats,
                 kb_file, write_lock, switch_lock, next_id, w_pc, w_loc,
                 h_appended, h_win, h_in, h_pre>>
  /\ UNCHANGED <<cqVars, auxVars>>

\* create_snapshot returning with the compact lock still held
SnapshotOffsetKeepsLock(p) ==
  /\ p_pc[p] = "snap_offset"
  /\ snapshot_offset' = Len(Buf(p_loc[p].ref))
  /\ p_pc' = [p_pc EXCEPT ![p] = "compact"]
  /\ h_win' = [h_win EXCEPT ![p] = <<>>]
  /\ UNCHANGED <<buffer_a, buffer_b, active_buffer, current_snapshot, stats,
                 kb_file, write_lock, compact_lock, switch_lock, next_id,
                 w_pc, w_loc, p_loc, h_appended, h_in, h_quiet, h_overlap,
                 h_pre, h_runs>>
  /\ UNCHANGED <<cqVars, auxVars>>

\* self.snapshot_offset = len(active_buffer); return snapshot
SnapshotOffset(p) ==
  /\ p_pc[p] = "snap_offset"
  /\ snapshot_offset' = Len(Buf(p_loc[p].ref))
  /\ compact_lock' = Free
  /\ p_pc' = [p_pc EXCEPT ![p] = "compact"]
  /\ h_win' = [h_win EXCEPT ![p] = <<>>]
  /\ UNCHANGED <<buffer_a, buffer_b, active_buffer, current_snapshot, stats,
                 kb_file, write_lock, switch_lock, next_id, w_pc, w_loc,
                 p_loc, h_appended, h_in, h_quiet, h_overlap, h_pre, h_runs>>
  /\ UNCHANGED <<cqVars, auxVars>>

(* ------------- the merge between snapshot and switch ------------------ *)
\* compaction_result = compact_qa_pairs(snapshot.data, ...), no lock held
PassCompact(p) ==
  /\ p_pc[p] = "compact"
  /\ \E reply \in StoreReplies, mreply \in MergeReplies :
       \E groups \in {FindSimilarGroups(
                         DetectExactDuplicates(p_loc[p].snapshot.data).unique,
                         reply)} :
         /\ p_loc' = [p_loc EXCEPT ![p].merged =
                        CompactQAPairs(p_loc[p].snapshot.data, reply,
                                       [k \in 1..Len(groups) |-> mreply],
                                       next_id)]
         /\ next_id' = next_id + Len(groups)
  /\ p_pc' = [p_pc EXCEPT ![p] = "switch"]
  /\ UNCHANGED <<buffer_a, buffer_b, active_buffer, snapshot_offset,
                 current_snapshot, stats, kb_file, write_lock, compact_lock,
                 switch_lock, w_pc, w_loc>>
  /\ UNCHANGED <<hVars, cqVars, auxVars>>

(* -------------------- switch_buffers_with_tail_sync ------------------- *)
\* under the switch lock: tail_data, new_active_data, and the flip of
\* self.active_buffer
SwitchBegin(p) ==
  /\ p_pc[p] = "switch"
  /\ switch_lock = Free
  /\ switch_lock' = p
  /\ p_loc' = [p_loc EXCEPT
                 ![p].new_data = p_loc[p].merged
                                 \o TailData(GetActiveBuffer, snapshot_offset),
                 ![p].old_active = active_buffer]
  /\ active_buffer' = Other(active_buffer)
  /\ p_pc' = [p_pc EXCEPT ![p] = "x_clear"]
  /\ h_pre' = [h_pre EXCEPT ![p] =
                 [buffer_a |-> buffer_a, buffer_b |-> buffer_b,
                  active_buffer |-> active_buffer,
                  current_snapshot |-> current_snapshot,
                  snapshot_offset |-> snapshot_offset, kb_file |-> kb_file]]
  /\ h_quiet' = [h_quiet EXCEPT
                   ![p] = h_quiet[p] /\ \A w \in Writers : w_pc[w] = "idle"]
  /\ UNCHANGED <<buffer_a, buffer_b, snapshot_offset, current_snapshot, stats,
                 kb_file, write_lock, compact_lock, next_id, w_pc, w_loc,
                 h_appended, h_win, h_in, h_overlap, h_runs>>
  /\ UNCHANGED <<cqVars, auxVars>>

\* new_active_buffer.clear()
SwitchClearNew(p) ==
  /\ p_pc[p] = "x_clear"
  /\ buffer_a' = IF active_buffer = "A" THEN <<>> ELSE buffer_a
  /\ buffer_b' = IF active_buffer = "B" THEN <<>> ELSE buffer_b
  /\ p_pc' = [p_pc EXCEPT ![p] = "x_extend"]
  /\ UNCHANGED <<active_buffer, snapshot_offset, current_snapshot, stats,
                 kb_file, write_lock, compact_lock, switch_lock, next_id,
                 w_pc, w_loc, p_loc>>
  /\ UNCHANGED <<hVars, cqVars, auxVars>>

\* new_active_buffer.extend(new_active_data)
SwitchExtendNew(p) ==
  /\ p_pc[p] = "x_extend"
  /\ buffer_a' = IF active_buffer = "A"
                 THEN buffer_a \o p_loc[p].new_data ELSE buffer_a
  /\ buffer_b' = IF active_buffer = "B"
                 THEN buffer_b \o p_loc[p].new_data ELSE buffer_b
  /\ p_pc' = [p_pc EXCEPT ![p] = "x_reset"]
  /\ UNCHANGED <<active_buffer, snapshot_offset, current_snapshot, stats,
                 kb_file, write_lock, compact_lock, switch_lock, next_id,
                 w_pc, w_loc, p_loc>>
  /\ UNCHANGED <<hVars, cqVars, auxVars>>

\* new_inactive_buffer.clear(), the stats, and the reset of the snapshot
SwitchReset(p) ==
  /\ p_pc[p] = "x_reset"
  /\ buffer_a' = IF active_buffer = "A" THEN buffer_a ELSE <<>>
  /\ buffer_b' = IF active_buffer = "B" THEN buffer_b ELSE <<>>
  /\ stats' = [stats EXCEPT
                 !.active_buffer_size = Len(GetActiveBuffer),
                 !.inactive_buffer_size = 0,
                 !.total_compacts = @ + 1]
  /\ snapshot_offset' = 0
  /\ current_snapshot' = NoSnapshot
  /\ p_pc' = [p_pc EXCEPT ![p] = "x_save"]
  /\ UNCHANGED <<active_buffer, kb_file, write_lock, compact_lock,
                 switch_lock, next_id, w_pc, w_loc, p_loc>>
  /\ UNCHANGED <<hVars, cqVars, auxVars>>

\* self._save_to_file(); return True
SwitchSave(p) ==
  /\ p_pc[p] = "x_save"
  /\ \E ok \in BOOLEAN : kb_file' = SaveToFile(ok, buffer_a, buffer_b)
  /\ switch_lock' = Free
  /\ p_loc' = [p_loc EXCEPT ![p] = [PIdleLoc EXCEPT !.result = TRUE]]
  /\ p_pc' = [p_pc EXCEPT ![p] = "idle"]
  /\ h_in' = [w \in Writers |-> h_in[w] \ {p}]
  /\ h_win' = [h_win EXCEPT ![p] = <<>>]
  /\ h_quiet' = [h_quiet EXCEPT ![p] = FALSE]
  /\ h_pre' = [h_pre EXCEPT ![p] = NoPre]
  /\ UNCHANGED <<buffer_a, buffer_b, active_buffer, snapshot_offset,
                 current_snapshot, stats, write_lock, compact_lock, next_id,
                 w_pc, w_loc, h_appended, h_overlap, h_runs>>
  /\ UNCHANGED <<cqVars, auxVars>>

WriterNext(w) == AppendEnter(w) \/ AppendExtend(w) \/ AppendFinish(w)

PassNext(p) ==
  \/ SnapshotCopy(p) \/ SnapshotOffset(p) \/ PassCompact(p)
  \/ SwitchBegin(p) \/ SwitchClearNew(p) \/ SwitchExtendNew(p)
  \/ SwitchReset(p) \/ SwitchSave(p)

(* ========================= AsyncLLMProcessor ========================== *)
\* most tasks handed to submit_task over a run
MaxTasks == 2
\* max_concurrent_tasks given to the constructor
MaxConcurrentTasks == 1
\* max_retries given to the constructor
MaxRetries == 1

\* no task in the hand of the worker thread
NoTask == [task_id |-> 0, retries |-> 0]

Task(task_id, retries) == [task_id |-> task_id, retries |-> retries]

\* a future of the executor: st is "pending" (in the executor's work
\* queue), "running" (_process_task is executing), "retrying" (the task was
\* put back on the queue, the raise is still to come), "returned" (the
\* cleaner's result was returned), "final" (the final_failure dict was
\* returned) or "raised"
Future(task, st) == [task_id |-> task.task_id, retries |-> task.retries, st |-> st]

\* every task is handed to the executor at most 1 + max_retries times
FutureIds == 1..(MaxTasks * (MaxRetries + 1))

\* future.done()
Done(f) == ap_fut[f].st \in {"returned", "final", "raised"}

\* futures whose body is executing in a pool thread
Executing == {f \in 1..Len(ap_fut) : ap_fut[f].st \in {"running", "retrying"}}

\* a dict with key k set to v
DictSet(d, k, v) == [x \in DOMAIN d \cup {k} |-> IF x = k THEN v ELSE d[x]]

\* a dict without the keys in K
DictWithout(d, K) == [x \in DOMAIN d \ K |-> d[x]]

EmptyDict == [x \in {} |-> 0]

\* _cleanup_completed_tasks: the active tasks whose future is done
CompletedTaskIds == {t \in DOMAIN ap_active : Done(ap_active[t])}

\* those whose future.result() returns (no result carries 'retry')
CleanupCompleted ==
  ap_completed \cup {t \in CompletedTaskIds : ap_fut[ap_active[t]].st # "raised"}

\* those whose future.result() raises
CleanupFailed ==
  ap_failed \cup {t \in CompletedTaskIds : ap_fut[ap_active[t]].st = "raised"}

\* the callbacks submit_task can be given: None, one that returns, one
\* that raises
Callbacks == {"none", "ok", "raises"}

\* the priorities submit_task is given here
Priorities == {0, 1}

\* result['callback'](result) runs for the tasks whose result carries the
\* callback: those whose body returned the cleaner's result
CallbacksInvoked ==
  ap_called \cup {t \in CompletedTaskIds :
                    /\ ap_fut[ap_active[t]].st = "returned"
                    /\ ap_args[t].callback # "none"}

\* the tasks whose callback has raised
CallbackRaised == {t \in ap_called : ap_args[t].callback = "raises"}

\* a cleanup that a raising callback ends before its second loop
CleanupActiveUnlessRaised ==
  DictWithout(ap_active,
              {t \in CompletedTaskIds :
                 ~(/\ ap_fut[ap_active[t]].st = "returned"
                   /\ ap_args[t].callback = "raises")})

CleanupActive == DictWithout(ap_active, CompletedTaskIds)

\* ids of the tasks in the queue
QueuedIds == {ap_queue[k].task_id : k \in 1..Len(ap_queue)}

\* get_task_status(task_id)['status']
GetTaskStatus(task_id) ==
  IF task_id \in ap_completed THEN "completed"
  ELSE IF task_id \in ap_failed THEN "failed"
  ELSE IF task_id \in DOMAIN ap_active THEN "processing"
  ELSE IF task_id \in QueuedIds THEN "queued"
  ELSE "not_found"

NoIdleWorkerStrict(active) == Cardinality(DOMAIN active) > MaxConcurrentTasks

\* len(self.active_tasks) >= self.max_concurrent_tasks
NoIdleWorker(active) == Cardinality(DOMAIN active) >= MaxConcurrentTasks

\* the processor after __init__
InitProc ==
  /\ ap_running = FALSE
  /\ ap_queue = <<>>
  /\ ap_active = EmptyDict
  /\ ap_completed = {}
  /\ ap_failed = {}
  /\ ap_fut = <<>>
  /\ ap_shutdown = FALSE
  /\ ap_submitted = 0
  /\ d_pc = "none"
  /\ d_task = NoTask
  /\ c_pc = "idle"
  /\ c_drain = FALSE
  /\ c_result = "none"
  /\ ap_args = EmptyDict
  /\ ap_called = {}
  /\ d_behind = {}
  /\ c_timed = FALSE
  /\ c_timeout = 0
  /\ c_elapsed = 0

\* what an action of the processor leaves alone outside the processor
apRest == <<storeVars, cqVars, schVars, fsVars, svVars, restVars>>

\* the same with the record of the arguments
apOthers == <<apRest, argVars>>

\* start()
Start ==
  /\ ~ap_running
  /\ d_pc = "none"
  /\ ap_running' = TRUE
  /\ d_pc' = "top"
  /\ UNCHANGED <<ap_queue, ap_active, ap_completed, ap_failed, ap_fut,
                 ap_shutdown, ap_submitted, d_task, c_pc, c_drain, c_result>>
  /\ UNCHANGED apOthers

\* submit_task(): the task goes to the back of the queue with retries = 0
SubmitTask(priority, callback) ==
  /\ ap_submitted < MaxTasks
  /\ ap_queue' = Append(ap_queue, Task(ap_submitted + 1, 0))
  /\ ap_submitted' = ap_submitted + 1
  /\ ap_args' = DictSet(ap_args, ap_submitted + 1,
                        [priority |-> priority, callback |-> callback])
  /\ UNCHANGED <<ap_running, ap_active, ap_completed, ap_failed, ap_fut,
                 ap_shutdown, d_pc, d_task, c_pc, c_drain, c_result,
                 ap_called, d_behind, waitVars>>
  /\ UNCHANGED apRest

(* ------------------------------ _worker_loop -------------------------- *)
\* `while self.running`
WorkerCheckRunning ==
  /\ d_pc = "top"
  /\ d_pc' = IF ap_running THEN "get" ELSE "exited"
  /\ UNCHANGED <<ap_running, ap_queue, ap_active, ap_completed, ap_failed,
                 ap_fut, ap_shutdown, ap_submitted, d_task, c_pc, c_drain,
                 c_result>>
  /\ UNCHANGED apOthers

\* task = self.task_queue.get(timeout=1.0), or Empty and `continue`
WorkerGet ==
  /\ d_pc = "get"
  /\ IF ap_queue = <<>>
     THEN d_pc' = "top" /\ UNCHANGED <<ap_queue, d_task, d_behind>>
     ELSE /\ d_task' = Head(ap_queue)
          /\ ap_queue' = Tail(ap_queue)
          /\ d_behind' = {ap_queue[k].task_id : k \in 2..Len(ap_queue)}
          /\ d_pc' = "held"
  /\ UNCHANGED <<ap_running, ap_active, ap_completed, ap_failed, ap_fut,
                 ap_shutdown, ap_submitted, c_pc, c_drain, c_result,
                 ap_args, ap_called, waitVars>>
  /\ UNCHANGED apRest

\* cleanup, then the task is put back when no worker is idle, or handed
\* to the executor and registered in active_tasks; executor.submit raises
\* after shutdown, and the loop's handler only logs it
WorkerDispatch ==
  /\ d_pc = "held"
  /\ ap_completed' = CleanupCompleted
  /\ ap_failed' = CleanupFailed
  /\ IF NoIdleWorker(CleanupActive)
     THEN /\ ap_queue' = Append(ap_queue, d_task)
          /\ ap_active' = CleanupActive
          /\ UNCHANGED ap_fut
     ELSE IF ap_shutdown
     THEN /\ ap_active' = CleanupActive
          /\ UNCHANGED <<ap_queue, ap_fut>>
     ELSE /\ ap_fut' = Append(ap_fut, Future(d_task, "pending"))
          /\ ap_active' = DictSet(CleanupActive, d_task.task_id, Len(ap_fut) + 1)
          /\ UNCHANGED ap_queue
  /\ ap_called' = CallbacksInvoked
  /\ d_task' = NoTask
  /\ d_behind' = {}
  /\ d_pc' = "top"
  /\ UNCHANGED <<ap_running, ap_shutdown, ap_submitted, c_pc, c_drain,
                 c_result, ap_args, waitVars>>
  /\ UNCHANGED apRest

(* ------------------- ThreadPoolExecutor, _process_task ---------------- *)
\* a pool thread takes the oldest pending work item
FutureStart(f) ==
  /\ f \in 1..Len(ap_fut)
  /\ ap_fut[f].st = "pending"
  /\ \A g \in 1..(f - 1) : ap_fut[g].st # "pending"
  /\ Cardinality(Executing) < MaxConcurrentTasks
  /\ ap_fut' = [ap_fut EXCEPT ![f].st = "running"]
  /\ UNCHANGED <<ap_running, ap_queue, ap_active, ap_completed, ap_failed,
                 ap_shutdown, ap_submitted, d_pc, d_task, c_pc, c_drain,
                 c_result>>
  /\ UNCHANGED apOthers

\* clean_markdown_file returned: `return result`
TaskReturn(f) ==
  /\ f \in 1..Len(ap_fut)
  /\ ap_fut[f].st = "running"
  /\ ap_fut' = [ap_fut EXCEPT ![f].st = "returned"]
  /\ UNCHANGED <<ap_running, ap_queue, ap_active, ap_completed, ap_failed,
                 ap_shutdown, ap_submitted, d_pc, d_task, c_pc, c_drain,
                 c_result>>
  /\ UNCHANGED apOthers

\* the retry test as `task['retries'] <= self.max_retries`
TaskFailOneMore(f) ==
  /\ f \in 1..Len(ap_fut)
  /\ ap_fut[f].st = "running"
  /\ IF ap_fut[f].retries <= MaxRetries
     THEN /\ ap_queue' = Append(ap_queue,
                                Task(ap_fut[f].task_id, ap_fut[f].retries + 1))
          /\ ap_fut' = [ap_fut EXCEPT ![f].st = "retrying"]
     ELSE /\ ap_fut' = [ap_fut EXCEPT ![f].st = "final"]
          /\ UNCHANGED ap_queue
  /\ UNCHANGED <<ap_running, ap_active, ap_completed, ap_failed, ap_shutdown,
                 ap_submitted, d_pc, d_task, c_pc, c_drain, c_result>>
  /\ UNCHANGED apOthers

\* the body raised: with retries left the task goes back on the queue
\* (after the backoff sleep), otherwise the final_failure dict is returned
TaskFail(f) ==
  /\ f \in 1..Len(ap_fut)
  /\ ap_fut[f].st = "running"
  /\ IF ap_fut[f].retries < MaxRetries
     THEN /\ ap_queue' = Append(ap_queue,
                                Task(ap_fut[f].task_id, ap_fut[f].retries + 1))
          /\ ap_fut' = [ap_fut EXCEPT ![f].st = "retrying"]
     ELSE /\ ap_fut' = [ap_fut EXCEPT ![f].st = "final"]
          /\ UNCHANGED ap_queue
  /\ UNCHANGED <<ap_running, ap_active, ap_completed, ap_failed, ap_shutdown,
                 ap_submitted, d_pc, d_task, c_pc, c_drain, c_result>>
  /\ UNCHANGED apOthers

\* `raise Exception("重试中 ...")` after the task was put back
TaskRaise(f) ==
  /\ f \in 1..Len(ap_fut)
  /\ ap_fut[f].st = "retrying"
  /\ ap_fut' = [ap_fut EXCEPT ![f].st = "raised"]
  /\ UNCHANGED <<ap_running, ap_queue, ap_active, ap_completed, ap_failed,
                 ap_shutdown, ap_submitted, d_pc, d_task, c_pc, c_drain,
                 c_result>>
  /\ UNCHANGED apOthers

\* get_statistics() called by a client: it starts with the cleanup
GetStatistics ==
  /\ CompletedTaskIds # {}
  /\ ap_completed' = CleanupCompleted
  /\ ap_failed' = CleanupFailed
  /\ ap_active' = CleanupActive
  /\ ap_called' = CallbacksInvoked
  /\ UNCHANGED <<ap_running, ap_queue, ap_fut, ap_shutdown, ap_submitted,
                 d_pc, d_task, c_pc, c_drain, c_result, ap_args, d_behind,
                 waitVars>>
  /\ UNCHANGED apRest

(* --------------------- wait_for_all_tasks and stop -------------------- *)
\* most sleeps a timeout of wait_for_all_tasks stands for
MaxTimeout == 1

\* c_elapsed is counted up to here
ElapsedCap == MaxTimeout + 2

\* a client calls wait_for_all_tasks() (no timeout)
WaitCall ==
  /\ c_pc = "idle"
  /\ c_pc' = "wait"
  /\ c_result' = "none"
  /\ c_timed' = FALSE /\ c_timeout' = 0 /\ c_elapsed' = 0
  /\ UNCHANGED <<ap_running, ap_queue, ap_active, ap_completed, ap_failed,
                 ap_fut, ap_shutdown, ap_submitted, d_pc, d_task, c_drain>>
  /\ UNCHANGED <<apRest, ap_args, ap_called, d_behind>>

\* a client calls wait_for_all_tasks(timeout): start_time = time.time()
WaitCallTimeout(timeout) ==
  /\ c_pc = "idle"
  /\ c_pc' = "wait"
  /\ c_result' = "none"
  /\ c_timed' = TRUE /\ c_timeout' = timeout /\ c_elapsed' = 0
  /\ UNCHANGED <<ap_running, ap_queue, ap_active, ap_completed, ap_failed,
                 ap_fut, ap_shutdown, ap_submitted, d_pc, d_task, c_drain>>
  /\ UNCHANGED <<apRest, ap_args, ap_called, d_behind>>

\* `if timeout and (time.time() - start_time) > timeout`
TimedOut == (c_timed /\ c_timeout # 0) /\ c_elapsed > c_timeout

\* stop(wait_for_completion): self.running = False
StopCall(wait_for_completion) ==
  /\ c_pc = "idle"
  /\ ap_running
  /\ ap_running' = FALSE
  /\ c_drain' = wait_for_completion
  /\ c_pc' = IF wait_for_completion THEN "stop_wait" ELSE "shutdown"
  /\ c_result' = "none"
  /\ c_timed' = FALSE /\ c_timeout' = 0 /\ c_elapsed' = 0
  /\ UNCHANGED <<ap_queue, ap_active, ap_completed, ap_failed, ap_fut,
                 ap_shutdown, ap_submitted, d_pc, d_task>>
  /\ UNCHANGED <<apRest, ap_args, ap_called, d_behind>>

\* one round of the loop of wait_for_all_tasks: cleanup, then the test of
\* queue_empty and no_active_tasks; it returns 'completed', returns
\* 'timeout', or sleeps; the time is counted for a call with a timeout
WaitPoll ==
  /\ c_pc \in {"wait", "stop_wait"}
  /\ ap_completed' = CleanupCompleted
  /\ ap_failed' = CleanupFailed
  /\ ap_active' = CleanupActive
  /\ IF ap_queue = <<>> /\ DOMAIN CleanupActive = {}
     THEN /\ c_result' = "completed"
          /\ c_pc' = IF c_pc = "wait" THEN "idle" ELSE "shutdown"
          /\ UNCHANGED c_elapsed
     ELSE IF TimedOut
     THEN /\ c_result' = "timeout"
          /\ c_pc' = "idle"
          /\ UNCHANGED c_elapsed
     ELSE /\ c_elapsed' = IF c_timed /\ c_elapsed < ElapsedCap
                          THEN c_elapsed + 1 ELSE c_elapsed
          /\ UNCHANGED <<c_pc, c_result>>
  /\ ap_called' = CallbacksInvoked
  /\ UNCHANGED <<ap_running, ap_queue, ap_fut, ap_shutdown, ap_submitted,
                 d_pc, d_task, c_drain, ap_args, d_behind, c_timed, c_timeout>>
  /\ UNCHANGED apRest

\* self.executor.shutdown(wait=wait_for_completion): with wait it returns
\* once every work item has run
ExecutorShutdown ==
  /\ c_pc = "shutdown"
  /\ c_drain => \A f \in 1..Len(ap_fut) : Done(f)
  /\ ap_shutdown' = TRUE
  /\ c_pc' = "join"
  /\ UNCHANGED <<ap_running, ap_queue, ap_active, ap_completed, ap_failed,
                 ap_fut, ap_submitted, d_pc, d_task, c_drain, c_result>>
  /\ UNCHANGED apOthers

\* self.worker_thread.join(timeout=5.0), then stop returns
WorkerJoin ==
  /\ c_pc = "join"
  /\ c_pc' = "stopped"
  /\ UNCHANGED <<ap_running, ap_queue, ap_active, ap_completed, ap_failed,
                 ap_fut, ap_shutdown, ap_submitted, d_pc, d_task, c_drain,
                 c_result>>
  /\ UNCHANGED apOthers

WorkerNext == WorkerCheckRunning \/ WorkerGet \/ WorkerDispatch

PoolNext ==
  \E f \in FutureIds :
    FutureStart(f) \/ TaskReturn(f) \/ TaskFail(f) \/ TaskRaise(f)

CallerNext ==
  \/ WaitCall \/ WaitPoll
  \/ (\E w \in BOOLEAN : StopCall(w))
  \/ ExecutorShutdown \/ WorkerJoin

\* submissions, the worker thread, the pool and a client reading statistics
\* submit_task with its defaults: priority = 0, callback = None
SubmitDefault == SubmitTask(0, "none")

\* submit_task with a callback
SubmitWithCallback == \E callback \in Callbacks : SubmitTask(0, callback)

\* submit_task with a priority
SubmitWithPriority == \E priority \in Priorities : SubmitTask(priority, "none")

NextDispatch ==
  Start \/ SubmitDefault \/ WorkerNext \/ PoolNext \/ GetStatistics

\* the pool running bodies that return the cleaner's result
PoolReturns == \E f \in FutureIds : FutureStart(f) \/ TaskReturn(f)

\* tasks submitted with callbacks
NextCallback ==
  Start \/ SubmitWithCallback \/ WorkerNext \/ PoolReturns \/ GetStatistics

\* the same with priorities
NextPriority ==
  Start \/ SubmitWithPriority \/ WorkerNext \/ PoolNext \/ GetStatistics

\* the same with a thread that calls wait_for_all_tasks and stop
NextProc == NextDispatch \/ CallerNext

\* a client that waits for all tasks with a timeout
NextWait ==
  \/ Start \/ SubmitDefault \/ WorkerNext \/ PoolReturns
  \/ (\E timeout \in 0..MaxTimeout : WaitCallTimeout(timeout))
  \/ WaitPoll

(* ======================== CompactionScheduler ========================= *)
\* self.min_qa_pairs_threshold
MinQaPairsThreshold == 50
\* self.min_inactive_buffer_size
MinInactiveBufferSize == 20
\* self.max_time_since_last_compaction, in minutes
MaxTimeSinceLastCompaction == 60
\* how far below and above each threshold the inputs of a cycle range
Margin == 2

\* last_compaction_time is None
NeverCompacted == 0 - 1

\* should_compact at `if should_compact:`, FALSE when the cycle returned
\* before it, for a scheduler whose min_inactive_buffer_size is min_size
ShouldCompactAt(min_size, total_qa_pairs, active_buffer_size, time_since_last) ==
  IF total_qa_pairs < MinQaPairsThreshold THEN FALSE
  ELSE \/ active_buffer_size >= min_size
       \/ /\ time_since_last # NeverCompacted
          /\ time_since_last >= MaxTimeSinceLastCompaction

\* the same for a scheduler that has not raised its trigger size
ShouldCompact(total_qa_pairs, active_buffer_size, time_since_last) ==
  ShouldCompactAt(MinInactiveBufferSize, total_qa_pairs, active_buffer_size,
                  time_since_last)

\* the scheduler before any cycle
InitSchedIdle ==
  /\ sch_pc = "check" /\ sch_total = 0 /\ sch_active = 0
  /\ sch_last = NeverCompacted /\ sch_started = FALSE

(* ------------------------ file processing status --------------------- *)
\* most source files known to the store
MaxFiles == 2

\* most concurrent callers of process_cleaned_file
MaxExtractors == 2

Files == 1..MaxFiles

Extractors == 1..MaxExtractors

\* ProcessingStatus, in the order of the enum
StatusOrder ==
  <<"processing", "asr_completed", "llm_completed", "clean_finished",
    "qa_extracted", "compacted">>

Statuses == {StatusOrder[i] : i \in 1..Len(StatusOrder)}

\* get_file_status of a path absent from file_status_map
NoStatus == "none"

\* get_file_status
GetFileStatus(f) == file_status_map[f]

\* update_file_status: the entry of the path is replaced, whatever it held
UpdateFileStatus(f, status) == [file_status_map EXCEPT ![f] = status]

\* what a write of the ledger file can come to: the whole ledger is
\* written, open() fails and the file is left alone, or the write stops
\* after open(..., 'w') has truncated the file
LedgerOutcomes == {"written", "unchanged", "torn"}

\* content of a ledger file whose write stopped half way
TornFile == "torn"

\* _save_file_status of the ledger `map`; every exception is logged and
\* swallowed
SaveFileStatusStale(outcome, map) == status_file

SaveFileStatus(outcome, map) ==
  IF outcome = "written" THEN map
  ELSE IF outcome = "unchanged" THEN status_file
  ELSE TornFile

\* get_clean_finished_files
GetCleanFinishedFiles ==
  {f \in Files : file_status_map[f] = "clean_finished"}

\* process_cleaned_file returns early for a file already extracted
AlreadyProcessed(f, force_extraction) ==
  /\ ~force_extraction
  /\ GetFileStatus(f) \in {"qa_extracted", "compacted"}

InitStatus ==
  /\ file_status_map = [f \in Files |-> NoStatus]
  /\ status_file = [f \in Files |-> NoStatus]
  /\ x_pc = [x \in Extractors |-> "idle"]
  /\ x_file = [x \in Extractors |-> 0]
  /\ x_result = [x \in Extractors |-> "none"]

\* process_cleaned_file(file_path, force_extraction) up to its call of
\* extract_and_save_qa_pairs
ProcessCleanedFile(x, f, force_extraction) ==
  /\ x_pc[x] = "idle"
  /\ IF AlreadyProcessed(f, force_extraction)
     THEN /\ x_result' = [x_result EXCEPT ![x] = "skipped"]
          /\ UNCHANGED <<file_status_map, status_file, x_pc, x_file>>
     ELSE /\ file_status_map' = UpdateFileStatus(f, "clean_finished")
          /\ \E outcome \in LedgerOutcomes :
               status_file' = SaveFileStatus(outcome, file_status_map')
          /\ x_pc' = [x_pc EXCEPT ![x] = "extract"]
          /\ x_file' = [x_file EXCEPT ![x] = f]
          /\ x_result' = [x_result EXCEPT ![x] = "none"]
  /\ UNCHANGED <<storeVars, cqVars, apVars, schVars, svVars, restVars>>

\* extract_and_save_qa_pairs: the extraction succeeds or not, and n records
\* come out of it (none when it fails, none or some when it succeeds); a
\* non-empty result is appended to the store and the file is marked
\* QA_EXTRACTED; an empty one returns success with qa_count 0
ExtractAndSaveQAPairs(x) ==
  /\ x_pc[x] = "extract"
  /\ write_lock = Free
  /\ \E n \in 0..1 : \E ok \in BOOLEAN : \E success \in BOOLEAN :
       LET qa_pairs == [k \in 1..n |->
                          QAPair(next_id + k - 1, StoreQuestion(next_id + k - 1),
                                 StoreAnswer, next_id + k - 1, EmptyMetadata)]
           a == IF active_buffer = "A" THEN buffer_a \o qa_pairs ELSE buffer_a
           b == IF active_buffer = "B" THEN buffer_b \o qa_pairs ELSE buffer_b
       IN  /\ RecordsHanded + n <= MaxRecords
           /\ n = 0 => ok
           /\ n > 0 => success
           /\ buffer_a' = a
           /\ buffer_b' = b
           /\ next_id' = next_id + n
           /\ stats' = IF n = 0 THEN stats
                       ELSE [stats EXCEPT
                               !.total_writes = @ + 1,
                               !.active_buffer_size =
                                  Len(IF active_buffer = "A" THEN a ELSE b),
                               !.total_qa_pairs = @ + n]
           /\ kb_file' = IF n = 0 THEN kb_file ELSE SaveToFile(ok, a, b)
           /\ h_appended' = h_appended \o qa_pairs
           /\ file_status_map' =
                 IF n = 0 THEN file_status_map
                 ELSE UpdateFileStatus(x_file[x], "qa_extracted")
           /\ \E outcome \in LedgerOutcomes :
                 status_file' = IF n = 0 THEN status_file
                                ELSE SaveFileStatus(outcome, file_status_map')
           /\ x_result' = [x_result EXCEPT ![x] =
                             IF n > 0 THEN "extracted"
                             ELSE IF success THEN "empty" ELSE "failed"]
  /\ x_pc' = [x_pc EXCEPT ![x] = "idle"]
  /\ x_file' = [x_file EXCEPT ![x] = 0]
  /\ UNCHANGED <<active_buffer, snapshot_offset, current_snapshot,
                 write_lock, compact_lock, switch_lock, w_pc, w_loc,
                 p_pc, p_loc, h_win, h_in, h_quiet, h_overlap, h_pre, h_runs>>
  /\ UNCHANGED <<cqVars, apVars, schVars, svVars, restVars>>

NextStatus ==
  \/ \E x \in Extractors : \E f \in Files : \E force_extraction \in BOOLEAN :
       ProcessCleanedFile(x, f, force_extraction)
  \/ \E x \in Extractors : ExtractAndSaveQAPairs(x)

(* ------------------------------- save --------------------------------- *)
\* save() catches what _save_to_file raises; _save_to_file catches every
\* exception itself, so `raised` is what gets past its handler
SaveReturn(raised) == IF raised THEN "False" ELSE "True"

\* _save_to_file logs and swallows the TimeoutError of file_lock and the
\* errors of the write: nothing is raised to the caller
SaveToFileRaises(timed_out, write_ok) == FALSE

InitSave ==
  /\ flock = "free"
  /\ sv_pc = "idle"
  /\ sv_content = <<>>
  /\ sv_result = "none"
  /\ sv_timeout = FALSE

saveOthers == <<cqVars, apVars, schVars, fsVars, restVars>>

\* another process takes the lock file with flock(LOCK_EX)
OtherProcessLocks ==
  /\ flock = "free"
  /\ flock' = "other"
  /\ UNCHANGED <<sv_pc, sv_content, sv_result, sv_timeout>>
  /\ UNCHANGED <<storeVars, saveOthers>>

\* the other process releases it
OtherProcessUnlocks ==
  /\ flock = "other"
  /\ flock' = "free"
  /\ UNCHANGED <<sv_pc, sv_content, sv_result, sv_timeout>>
  /\ UNCHANGED <<storeVars, saveOthers>>

\* save() -> _save_to_file up to file_lock: the content is built from the
\* two buffers before the lock is requested
SaveCall ==
  /\ sv_pc = "idle"
  /\ sv_content' = SavedImage(buffer_a, buffer_b)
  /\ sv_pc' = "locking"
  /\ sv_result' = "none"
  /\ sv_timeout' = FALSE
  /\ UNCHANGED flock
  /\ UNCHANGED <<storeVars, saveOthers>>

\* flock succeeds within the timeout: temp file, fsync, rename (or a
\* failed write, which leaves the file alone), unlock, return
SaveWrite ==
  /\ sv_pc = "locking"
  /\ flock = "free"
  /\ \E write_ok \in BOOLEAN :
       /\ kb_file' = IF write_ok THEN sv_content ELSE kb_file
       /\ sv_result' = SaveReturn(SaveToFileRaises(FALSE, write_ok))
  /\ sv_pc' = "idle"
  /\ sv_content' = <<>>
  /\ UNCHANGED <<flock, sv_timeout>>
  /\ UNCHANGED <<buffer_a, buffer_b, active_buffer, snapshot_offset,
                 current_snapshot, stats, write_lock, compact_lock,
                 switch_lock, next_id, w_pc, w_loc, p_pc, p_loc>>
  /\ UNCHANGED <<hVars, saveOthers>>

\* the lock stays with the other process for the whole timeout:
\* file_lock raises TimeoutError
SaveLockTimeout ==
  /\ sv_pc = "locking"
  /\ flock = "other"
  /\ sv_timeout' = TRUE
  /\ sv_result' = SaveReturn(SaveToFileRaises(TRUE, FALSE))
  /\ sv_pc' = "idle"
  /\ sv_content' = <<>>
  /\ UNCHANGED flock
  /\ UNCHANGED <<storeVars, saveOthers>>

SaveNext ==
  \/ OtherProcessLocks \/ OtherProcessUnlocks
  \/ SaveCall \/ SaveWrite \/ SaveLockTimeout

(* ------------------------------ cleanup ------------------------------- *)
\* most calls of cleanup() in a run
MaxCleanups == 2

InitCleanup ==
  /\ cl_calls = 0
  /\ cl_failed = FALSE
  /\ cl_last = "none"


\* cleanup(): _save_to_file() then _save_file_status(); both log and
\* swallow their own exceptions, so the except branch of cleanup is never
\* entered
CleanupWrites ==
  /\ \E ok \in BOOLEAN, outcome \in LedgerOutcomes :
       /\ kb_file' = SaveToFile(ok, buffer_a, buffer_b)
       /\ status_file' = SaveFileStatus(outcome, file_status_map)
       /\ cl_last' = IF ok /\ outcome = "written" THEN "saved" ELSE "failed"
       /\ cl_failed' = (cl_failed \/ ~ok \/ outcome # "written")
  /\ cl_calls' = cl_calls + 1
  /\ UNCHANGED <<file_status_map, x_pc, x_file, x_result>>

\* a call of cleanup() from outside shutdown
Cleanup ==
  /\ cl_calls < MaxCleanups
  /\ CleanupWrites
  /\ UNCHANGED <<buffer_a, buffer_b, active_buffer, snapshot_offset,
                 current_snapshot, stats, write_lock, compact_lock,
                 switch_lock, next_id, w_pc, w_loc, p_pc, p_loc>>
  /\ UNCHANGED <<hVars, cqVars, apVars, schVars, svVars, slVars, sdVars,
                 grVars, mgVars, lateVars>>

\* the extraction runs of one caller, and cleanup() calls
NextCleanup ==
  \/ \E f \in Files : \E force_extraction \in BOOLEAN :
       ProcessCleanedFile(1, f, force_extraction)
  \/ ExtractAndSaveQAPairs(1)
  \/ Cleanup

(* --------------------- CompactionScheduler loop ----------------------- *)
\* CompactionScheduler.__init__: not running, event clear, no thread
NoCompaction == [success |-> FALSE, original_count |-> 0, final_count |-> 0]

InitSchedCounters ==
  /\ sl_stats = [attempts |-> 0, successful |-> 0, failed |-> 0]
  /\ sl_result = NoCompaction
  /\ sl_min = MinInactiveBufferSize
  /\ sl_compacted = FALSE

InitSchedLoop ==
  /\ sl_running = FALSE
  /\ sl_stop = FALSE
  /\ sl_pc = "none"
  /\ InitSchedCounters

(* --------------------- KnowledgeProcessor.shutdown -------------------- *)
\* final_compression_threshold
FinalCompressionThreshold == 5

\* KnowledgeProcessor.__init__ before any shutdown
InitShutdownIdle ==
  /\ sd_pc = "idle"
  /\ sd_log = <<>>
  /\ sd_final = "none"
  /\ sd_auto = TRUE
  /\ sd_scheduler = FALSE
  /\ sd_monitor = FALSE

\* no find_similar_groups call
InitGroupingIdle ==
  g_input = <<>> /\ g_reply = <<>> /\ g_groups = <<>> /\ g_done = FALSE

(* ---------------------- FileLockManager.file_lock -------------------- *)
\* most concurrent callers of file_lock on the path
MaxLockers == 2

\* most attempts a timeout leaves room for
MaxAttempts == 2

Lockers == 1..MaxLockers

lateOthers ==
  <<storeVars, cqVars, apVars, schVars, fsVars, svVars, clVars, slVars,
    sdVars, grVars, mgVars>>

\* flock(fd, LOCK_EX | LOCK_NB) or flock(fd, LOCK_SH | LOCK_NB) by caller l,
\* whose file object is its own open of the path: granted unless another
\* open file holds a conflicting lock; a request in any mode is granted as
\* if it were shared
FlockGrantsAsShared(l, exclusive) ==
  \A o \in Lockers \ {l} : fl_held[o] # "EX"

FlockGrants(l, exclusive) ==
  \A o \in Lockers \ {l} :
    IF exclusive THEN fl_held[o] = "none" ELSE fl_held[o] # "EX"

InitFileLockIdle ==
  /\ fl_pc = [l \in Lockers |-> "idle"]
  /\ fl_exclusive = [l \in Lockers |-> TRUE]
  /\ fl_left = [l \in Lockers |-> 0]
  /\ fl_held = [l \in Lockers |-> "none"]
  /\ fl_registry = {}
  /\ fl_result = [l \in Lockers |-> "none"]
  /\ fl_entered = [l \in Lockers |-> FALSE]

(* ------- DualBufferKnowledgeBase._save_to_file, file by file ---------- *)
\* most concurrent writers of the path
MaxSavers == 2

Savers == 1..MaxSavers

\* a path with no file
NoFile == [by |-> 0, whole |-> FALSE]

\* the content of a file: written by the persist of `by` (0: what the path
\* held before), whole or cut short
Image(by, whole) == [by |-> by, whole |-> whole]

InitAtomicSaveIdle ==
  /\ as_pc = [w \in Savers |-> "idle"]
  /\ as_left = [w \in Savers |-> 0]
  /\ as_lock = 0
  /\ as_temp = NoFile
  /\ as_fd = [w \in Savers |-> FALSE]
  /\ as_kb = Image(0, TRUE)
  /\ as_raised = [w \in Savers |-> FALSE]
  /\ as_result = [w \in Savers |-> "none"]

\* the threads that run _cleanup_completed_tasks: the dispatcher in
\* _worker_loop, and a thread calling get_statistics or wait_for_all_tasks
CleanupThreads == {"dispatcher", "client"}

CleanupTasks == 1..MaxTasks

InitCleanupRaceIdle ==
  /\ cu_active = {}
  /\ cu_done = {}
  /\ cu_completed = {}
  /\ cu_total = 0
  /\ cu_calls = [t \in CleanupTasks |-> 0]
  /\ cu_pc = [th \in CleanupThreads |-> "idle"]
  /\ cu_items = [th \in CleanupThreads |-> {}]
  /\ cu_ids = [th \in CleanupThreads |-> {}]

InitRoundTripIdle ==
  /\ rt_pc = "store"
  /\ rt_buffer = <<>>
  /\ rt_file = <<>>
  /\ rt_trips = 0
  /\ rt_orig = <<>>
  /\ rt_prev = <<>>

InitLateIdle ==
  /\ InitFileLockIdle /\ InitAtomicSaveIdle /\ InitCleanupRaceIdle
  /\ InitRoundTripIdle

flOthers == <<lateOthers, asVars, cuVars, rtVars>>

asOthers == <<lateOthers, flVars, cuVars, rtVars>>

cuOthers == <<lateOthers, flVars, asVars, rtVars>>

rtOthers == <<lateOthers, flVars, asVars, cuVars>>

(* ------------- the knowledge file: to_markdown and its parser --------- *)
(* A line of the file is [kind, rest]: kind "Q" for a line that starts    *)
(* with '## Q:', "A" for one that starts with '**A:**', rest being what   *)
(* follows the marker; kind "other" for any other line. The texts of the  *)
(* model hold no marker, so the kind of a line is that of its template.   *)
MdLine(kind, rest) == [kind |-> kind, rest |-> rest]

\* QAPair.to_markdown, with the empty line that "\n".join adds
ToMarkdown(qa) ==
  << MdLine("Q", <<" ">> \o qa.question),
     MdLine("other", <<>>),
     MdLine("A", <<" ">> \o qa.answer),
     MdLine("other", <<>>),
     MdLine("other", <<"-">>),
     MdLine("other", <<>>),
     MdLine("other", <<>>) >>

RECURSIVE MarkdownOf(_)
MarkdownOf(qa_pairs) ==
  IF qa_pairs = <<>> THEN <<>>
  ELSE ToMarkdown(Head(qa_pairs)) \o MarkdownOf(Tail(qa_pairs))

\* _generate_markdown_content: the header, then the records
GenerateMarkdownContent(qa_pairs) ==
  << MdLine("other", <<"#">>), MdLine("other", <<>>),
     MdLine("other", <<"-">>), MdLine("other", <<>>) >>
  \o MarkdownOf(qa_pairs)

\* index of the first line from i on that starts with '**A:**', or
\* Len(lines) + 1
AnswerLineFrom(lines, i) ==
  IF \E k \in i..Len(lines) : lines[k].kind = "A"
  THEN CHOOSE k \in i..Len(lines) :
         /\ lines[k].kind = "A"
         /\ \A j \in i..(k - 1) : lines[j].kind # "A"
  ELSE Len(lines) + 1

\* question = line[5:].strip(): '## Q:' is five characters long, so the
\* slice is what follows the marker. answer = answer_line[5:].strip():
\* '**A:**' is six characters long, so the slice starts with the last '*'
\* of the marker. The id and the timestamp are new.
ParsedRecord(lines, q, a, id) ==
  QAPair(id, Strip(lines[q].rest), Strip(<<"*">> \o lines[a].rest), id, EmptyMetadata)

\* the loop of _parse_markdown_qa_pairs from line i on: current is
\* <<current_qa>> or <<>> for None, out is qa_pairs
RECURSIVE ParseLoop(_, _, _, _)
ParseLoop(lines, i, current, out) ==
  IF i > Len(lines) THEN out \o current
  ELSE IF lines[i].kind # "Q" THEN ParseLoop(lines, i + 1, current, out)
  ELSE Only({IF a <= Len(lines)
             THEN ParseLoop(lines, a + 1,
                            <<ParsedRecord(lines, i, a, Len(out) + Len(current) + 1)>>,
                            out \o current)
             ELSE ParseLoop(lines, a + 1, current, out \o current) :
             a \in {AnswerLineFrom(lines, i + 1)}})

ParseMarkdownQAPairs(lines) == ParseLoop(lines, 1, <<>>, <<>>)

\* os.remove(temp_file) guarded by os.path.exists(temp_file): the path is
\* unlinked, and a file object open on it keeps the unlinked file
RemoveTemp == [w \in Savers |-> FALSE]

\* _save_to_file up to file_lock: the content is ready, the lock is asked
\* for with timeout=15.0, which leaves room for `attempts` >= 1 iterations
AsCall(w, attempts) ==
  /\ as_pc[w] = "idle"
  /\ as_pc' = [as_pc EXCEPT ![w] = "locking"]
  /\ as_left' = [as_left EXCEPT ![w] = attempts]
  /\ as_raised' = [as_raised EXCEPT ![w] = FALSE]
  /\ as_result' = [as_result EXCEPT ![w] = "none"]
  /\ UNCHANGED <<as_lock, as_temp, as_fd, as_kb>>
  /\ UNCHANGED asOthers

\* one iteration of file_lock's loop on <path>.lock, exclusive
AsLockAttempt(w) ==
  /\ as_pc[w] = "locking"
  /\ as_left[w] > 0
  /\ IF as_lock = 0
     THEN /\ as_lock' = w
          /\ as_pc' = [as_pc EXCEPT ![w] = "open"]
          /\ UNCHANGED as_left
     ELSE /\ as_left' = [as_left EXCEPT ![w] = @ - 1]
          /\ UNCHANGED <<as_lock, as_pc>>
  /\ UNCHANGED <<as_temp, as_fd, as_kb, as_raised, as_result>>
  /\ UNCHANGED asOthers

\* file_lock raises TimeoutError, which goes to the handler of
\* _save_to_file
AsLockTimeout(w) ==
  /\ as_pc[w] = "locking"
  /\ as_left[w] = 0
  /\ as_pc' = [as_pc EXCEPT ![w] = "except"]
  /\ as_raised' = [as_raised EXCEPT ![w] = TRUE]
  /\ UNCHANGED <<as_left, as_lock, as_temp, as_fd, as_kb, as_result>>
  /\ UNCHANGED asOthers

\* open(temp_file, 'w'): the file at <path>.tmp is created or truncated
AsOpenTemp(w) ==
  /\ as_pc[w] = "open"
  /\ as_temp' = Image(w, FALSE)
  /\ as_fd' = [as_fd EXCEPT ![w] = TRUE]
  /\ as_pc' = [as_pc EXCEPT ![w] = "write"]
  /\ UNCHANGED <<as_left, as_lock, as_kb, as_raised, as_result>>
  /\ UNCHANGED asOthers

\* f.write(content), flush, fsync and close; a failed write goes to the
\* inner handler, which removes the temp file if the path exists and
\* raises again
AsWrite(w, ok) ==
  /\ as_pc[w] = "write"
  /\ IF ok
     THEN /\ as_temp' = IF as_fd[w] THEN Image(w, TRUE) ELSE as_temp
          /\ as_fd' = [as_fd EXCEPT ![w] = FALSE]
          /\ as_pc' = [as_pc EXCEPT ![w] = "rename"]
          /\ UNCHANGED as_raised
     ELSE /\ as_temp' = NoFile
          /\ as_fd' = RemoveTemp
          /\ as_pc' = [as_pc EXCEPT ![w] = "unlock"]
          /\ as_raised' = [as_raised EXCEPT ![w] = TRUE]
  /\ UNCHANGED <<as_left, as_lock, as_kb, as_result>>
  /\ UNCHANGED asOthers

\* os.rename(temp_file, knowledge_base_file); with no file at <path>.tmp
\* it raises, and the inner handler raises again
AsRename(w) ==
  /\ as_pc[w] = "rename"
  /\ IF as_temp # NoFile
     THEN /\ as_kb' = as_temp
          /\ as_temp' = NoFile
          /\ UNCHANGED as_raised
     ELSE /\ as_raised' = [as_raised EXCEPT ![w] = TRUE]
          /\ UNCHANGED <<as_kb, as_temp>>
  /\ as_pc' = [as_pc EXCEPT ![w] = "unlock"]
  /\ UNCHANGED <<as_left, as_lock, as_fd, as_result>>
  /\ UNCHANGED asOthers

\* the finally clause of file_lock: the lock is released; the call
\* returns, or the exception goes on to the handler of _save_to_file
AsUnlock(w) ==
  /\ as_pc[w] = "unlock"
  /\ as_lock' = 0
  /\ as_pc' = [as_pc EXCEPT ![w] = IF as_raised[w] THEN "except" ELSE "idle"]
  /\ as_result' = [as_result EXCEPT ![w] =
                     IF as_raised[w] THEN as_result[w] ELSE "saved"]
  /\ UNCHANGED <<as_left, as_temp, as_fd, as_kb, as_raised>>
  /\ UNCHANGED asOthers

\* `except Exception` of _save_to_file: the error is logged and the file
\* at <path>.tmp is removed if the path exists
AsExcept(w) ==
  /\ as_pc[w] = "except"
  /\ as_temp' = NoFile
  /\ as_fd' = RemoveTemp
  /\ as_pc' = [as_pc EXCEPT ![w] = "idle"]
  /\ as_raised' = [as_raised EXCEPT ![w] = FALSE]
  /\ as_result' = [as_result EXCEPT ![w] = "failed"]
  /\ UNCHANGED <<as_left, as_lock, as_kb>>
  /\ UNCHANGED asOthers

(* ------- _cleanup_completed_tasks in two threads, task by task -------- *)
\* _worker_loop: self.active_tasks[task['task_id']] = future, for a task
\* submitted with a callback
CuDispatch(t) ==
  /\ t \notin cu_active /\ t \notin cu_done /\ t \notin cu_completed
  /\ cu_active' = cu_active \cup {t}
  /\ UNCHANGED <<cu_done, cu_completed, cu_total, cu_calls, cu_pc, cu_items,
                 cu_ids>>
  /\ UNCHANGED cuOthers

\* _process_task returns its result in a pool thread
CuFutureDone(t) ==
  /\ t \in cu_active /\ t \notin cu_done
  /\ cu_done' = cu_done \cup {t}
  /\ UNCHANGED <<cu_active, cu_completed, cu_total, cu_calls, cu_pc, cu_items,
                 cu_ids>>
  /\ UNCHANGED cuOthers

\* completed_task_ids = []; list(self.active_tasks.items())
CuBegin(th) ==
  /\ cu_pc[th] = "idle"
  /\ cu_items' = [cu_items EXCEPT ![th] = cu_active]
  /\ cu_ids' = [cu_ids EXCEPT ![th] = {}]
  /\ cu_pc' = [cu_pc EXCEPT ![th] = "loop"]
  /\ UNCHANGED <<cu_active, cu_done, cu_completed, cu_total, cu_calls>>
  /\ UNCHANGED cuOthers

\* one iteration of the first loop: a done future is recorded in
\* completed_tasks, counted, and its callback invoked
CuVisit(th, t) ==
  /\ cu_pc[th] = "loop"
  /\ t \in cu_items[th]
  /\ cu_items' = [cu_items EXCEPT ![th] = @ \ {t}]
  /\ IF t \in cu_done
     THEN /\ cu_ids' = [cu_ids EXCEPT ![th] = @ \cup {t}]
          /\ cu_completed' = cu_completed \cup {t}
          /\ cu_total' = cu_total + 1
          /\ cu_calls' = [cu_calls EXCEPT ![t] = @ + 1]
     ELSE UNCHANGED <<cu_ids, cu_completed, cu_total, cu_calls>>
  /\ UNCHANGED <<cu_active, cu_done, cu_pc>>
  /\ UNCHANGED cuOthers

\* the second loop: the ids found done are deleted from active_tasks
CuRemove(th) ==
  /\ cu_pc[th] = "loop"
  /\ cu_items[th] = {}
  /\ cu_active' = cu_active \ cu_ids[th]
  /\ cu_ids' = [cu_ids EXCEPT ![th] = {}]
  /\ cu_pc' = [cu_pc EXCEPT ![th] = "idle"]
  /\ UNCHANGED <<cu_done, cu_completed, cu_total, cu_calls, cu_items>>
  /\ UNCHANGED cuOthers

NextCleanupRace ==
  \/ \E t \in CleanupTasks : CuDispatch(t)
  \/ \E t \in CleanupTasks : CuFutureDone(t)
  \/ \E th \in CleanupThreads : CuBegin(th)
  \/ \E th \in CleanupThreads : \E t \in CleanupTasks : CuVisit(th, t)
  \/ \E th \in CleanupThreads : CuRemove(th)

(* ------------------------ persist and reload -------------------------- *)
\* most records of the store that is persisted
MaxStored == 2

\* question and answer texts of one line
LineTexts == {<<>>, <<"a">>, <<" ", "a">>, <<"b", " ">>}

\* _save_to_file of the store: the records sorted by timestamp, as
\* markdown
RtSave ==
  /\ rt_pc = "store"
  /\ rt_trips < 2
  /\ rt_file' = GenerateMarkdownContent(SavedImage(rt_buffer, <<>>))
  /\ rt_pc' = "file"
  /\ UNCHANGED <<rt_buffer, rt_trips, rt_orig, rt_prev>>
  /\ UNCHANGED rtOthers

\* a new store: _load_existing_data reads the file into buffer_a
RtLoad ==
  /\ rt_pc = "file"
  /\ rt_buffer' = ParseMarkdownQAPairs(rt_file)
  /\ rt_prev' = rt_buffer
  /\ rt_trips' = rt_trips + 1
  /\ rt_pc' = "store"
  /\ UNCHANGED <<rt_file, rt_orig>>
  /\ UNCHANGED rtOthers

NextRoundTrip == RtSave \/ RtLoad

NextAtomicSave ==
  \/ \E w \in Savers : \E attempts \in 1..MaxAttempts : AsCall(w, attempts)
  \/ \E w \in Savers : AsLockAttempt(w)
  \/ \E w \in Savers : AsLockTimeout(w)
  \/ \E w \in Savers : AsOpenTemp(w)
  \/ \E w \in Savers : \E ok \in BOOLEAN : AsWrite(w, ok)
  \/ \E w \in Savers : AsRename(w)
  \/ \E w \in Savers : AsUnlock(w)
  \/ \E w \in Savers : AsExcept(w)

\* file_lock(path, mode, timeout, exclusive) up to the while loop; the
\* timeout leaves room for `attempts` iterations
FileLockCall(l, exclusive, attempts) ==
  /\ fl_pc[l] = "idle"
  /\ fl_pc' = [fl_pc EXCEPT ![l] = "trying"]
  /\ fl_exclusive' = [fl_exclusive EXCEPT ![l] = exclusive]
  /\ fl_left' = [fl_left EXCEPT ![l] = attempts]
  /\ fl_result' = [fl_result EXCEPT ![l] = "none"]
  /\ fl_entered' = [fl_entered EXCEPT ![l] = FALSE]
  /\ UNCHANGED <<fl_held, fl_registry>>
  /\ UNCHANGED flOthers

\* one iteration of the while loop: the flock is granted, the entry is
\* written to _active_locks and the block is entered, or the flock raises
\* and the caller sleeps
FileLockAttempt(l) ==
  /\ fl_pc[l] = "trying"
  /\ fl_left[l] > 0
  /\ IF FlockGrants(l, fl_exclusive[l])
     THEN /\ fl_held' = [fl_held EXCEPT ![l] =
                           IF fl_exclusive[l] THEN "EX" ELSE "SH"]
          /\ fl_registry' = fl_registry \cup {l}
          /\ fl_pc' = [fl_pc EXCEPT ![l] = "block"]
          /\ fl_entered' = [fl_entered EXCEPT ![l] = TRUE]
          /\ UNCHANGED fl_left
     ELSE /\ fl_left' = [fl_left EXCEPT ![l] = @ - 1]
          /\ UNCHANGED <<fl_held, fl_registry, fl_pc, fl_entered>>
  /\ UNCHANGED <<fl_exclusive, fl_result>>
  /\ UNCHANGED flOthers

\* the loop ends with acquired = False: TimeoutError; the finally clause
\* closes the file
FileLockTimeout(l) ==
  /\ fl_pc[l] = "trying"
  /\ fl_left[l] = 0
  /\ fl_pc' = [fl_pc EXCEPT ![l] = "idle"]
  /\ fl_result' = [fl_result EXCEPT ![l] = "TimeoutError"]
  /\ UNCHANGED <<fl_exclusive, fl_left, fl_held, fl_registry, fl_entered>>
  /\ UNCHANGED flOthers

\* the block ends, normally or by an exception: the finally clause
\* unlocks, removes the entry from _active_locks and closes the file
FileLockExit(l, raised) ==
  /\ fl_pc[l] = "block"
  /\ fl_held' = [fl_held EXCEPT ![l] = "none"]
  /\ fl_registry' = fl_registry \ {l}
  /\ fl_pc' = [fl_pc EXCEPT ![l] = "idle"]
  /\ fl_result' = [fl_result EXCEPT ![l] =
                     IF raised THEN "raised" ELSE "returned"]
  /\ UNCHANGED <<fl_exclusive, fl_left, fl_entered>>
  /\ UNCHANGED flOthers

NextFileLock ==
  \/ \E l \in Lockers : \E exclusive \in BOOLEAN :
       \E attempts \in 0..MaxAttempts : FileLockCall(l, exclusive, attempts)
  \/ \E l \in Lockers : FileLockAttempt(l)
  \/ \E l \in Lockers : FileLockTimeout(l)
  \/ \E l \in Lockers : \E raised \in BOOLEAN : FileLockExit(l, raised)

\* no _parse_simple_merge_response call
InitMergeIdle ==
  /\ m_group = <<>> /\ m_reply = <<>> /\ m_done = FALSE
  /\ m_out = [none |-> TRUE, qa |-> [id |-> 0]]

InitRest ==
  /\ InitCleanup /\ InitSchedLoop /\ InitShutdownIdle
  /\ InitGroupingIdle /\ InitMergeIdle /\ InitLateIdle

\* what the steps of shutdown leave alone outside the store and itself
sdOthers == <<cqVars, apVars, schVars, svVars, grVars, mgVars, lateVars>>

\* the store fields get_statistics refreshes
StatsRefreshed ==
  [stats EXCEPT !.active_buffer_size = Len(GetActiveBuffer),
                !.inactive_buffer_size = Len(GetInactiveBuffer),
                !.total_qa_pairs = Len(buffer_a) + Len(buffer_b)]

\* the early returns of _perform_final_compaction after get_statistics;
\* "proceed" when it goes on to create_snapshot
FinalCompactionSkip(total_qa_pairs, active_buffer_size) ==
  IF total_qa_pairs < FinalCompressionThreshold THEN "insufficient_data"
  ELSE IF active_buffer_size = 0 THEN "no_active_data"
  ELSE "proceed"

\* shutdown() up to its first call
ShutdownCall ==
  /\ sd_pc = "idle"
  /\ IF sd_auto
     THEN /\ sd_pc' = "final"
          /\ sd_log' = Append(sd_log, "final_compaction")
     ELSE /\ sd_pc' = "stop_scheduler"
          /\ UNCHANGED sd_log
  /\ UNCHANGED <<sd_final, sd_auto, sd_scheduler, sd_monitor>>
  /\ UNCHANGED <<storeVars, sdOthers, fsVars, clVars, slVars>>

\* _perform_final_compaction up to create_snapshot: the compactor may be
\* unavailable, anything before the snapshot may raise (caught by its own
\* except), the counts may be too small
FinalCheck ==
  /\ sd_pc = "final"
  /\ write_lock = Free
  /\ \E before \in {"compactor_unavailable", "exception", "statistics"} :
       IF before = "statistics"
       THEN /\ stats' = StatsRefreshed
            /\ LET skip == FinalCompactionSkip(stats'.total_qa_pairs,
                                               stats'.active_buffer_size)
               IN IF skip = "proceed"
                  THEN sd_pc' = "pass" /\ UNCHANGED sd_final
                  ELSE sd_pc' = "stop_scheduler" /\ sd_final' = skip
       ELSE /\ sd_final' = before
            /\ sd_pc' = "stop_scheduler"
            /\ UNCHANGED stats
  /\ UNCHANGED <<sd_log, sd_auto, sd_scheduler, sd_monitor>>
  /\ UNCHANGED <<buffer_a, buffer_b, active_buffer, snapshot_offset,
                 current_snapshot, kb_file, write_lock, compact_lock,
                 switch_lock, next_id, w_pc, w_loc, p_pc, p_loc>>
  /\ UNCHANGED <<hVars, sdOthers, fsVars, clVars, slVars>>

\* the final pass has been through its switch
FinalPassDone == p_pc["manual"] = "idle" /\ p_loc["manual"].result

\* create_snapshot, compact_qa_pairs and switch_buffers_with_tail_sync of
\* the final pass, run by the thread that called shutdown
FinalPassStep ==
  /\ sd_pc = "pass"
  /\ ~FinalPassDone
  /\ PassNext("manual")

\* compact_qa_pairs returns success = False, or something in the pass
\* raises: no switch, the snapshot stays registered
FinalPassFails ==
  /\ sd_pc = "pass"
  /\ p_pc["manual"] = "compact"
  /\ \E reason \in {"compression_failed", "exception"} : sd_final' = reason
  /\ p_pc' = [p_pc EXCEPT !["manual"] = "idle"]
  /\ p_loc' = [p_loc EXCEPT !["manual"] = PIdleLoc]
  /\ sd_pc' = "stop_scheduler"
  /\ UNCHANGED <<sd_log, sd_auto, sd_scheduler, sd_monitor>>
  /\ UNCHANGED <<buffer_a, buffer_b, active_buffer, snapshot_offset,
                 current_snapshot, stats, kb_file, write_lock, compact_lock,
                 switch_lock, next_id, w_pc, w_loc>>
  /\ UNCHANGED <<hVars, sdOthers, fsVars, clVars, slVars>>

\* switch_buffers_with_tail_sync returned True: success
FinalPassReturn ==
  /\ sd_pc = "pass"
  /\ FinalPassDone
  /\ sd_final' = "success"
  /\ sd_pc' = "stop_scheduler"
  /\ UNCHANGED <<sd_log, sd_auto, sd_scheduler, sd_monitor>>
  /\ UNCHANGED <<storeVars, sdOthers, fsVars, clVars, slVars>>

\* stop_scheduler(): nothing when not running; else is_running = False,
\* stop_event.set() and a join of at most 30 seconds
StopSchedulerEffect ==
  /\ sl_running' = FALSE
  /\ sl_stop' = (sl_stop \/ sl_running)
  /\ UNCHANGED <<sl_pc, sl_stats, sl_result, sl_min, sl_compacted>>

\* `if self.compaction_scheduler: ...stop_scheduler()`; a call that raises
\* sends shutdown to its except branch
ShutdownStopScheduler ==
  /\ sd_pc = "stop_scheduler"
  /\ IF sd_scheduler
     THEN /\ sd_log' = Append(sd_log, "stop_scheduler")
          /\ StopSchedulerEffect
          /\ \E raised \in BOOLEAN :
               sd_pc' = IF raised THEN "except" ELSE "stop_monitoring"
     ELSE /\ sd_pc' = "stop_monitoring"
          /\ UNCHANGED <<sd_log, slVars>>
  /\ UNCHANGED <<sd_final, sd_auto, sd_scheduler, sd_monitor>>
  /\ UNCHANGED <<storeVars, sdOthers, fsVars, clVars>>

\* `if self.system_monitor: ...stop_monitoring()`
ShutdownStopMonitoring ==
  /\ sd_pc = "stop_monitoring"
  /\ IF sd_monitor
     THEN /\ sd_log' = Append(sd_log, "stop_monitoring")
          /\ \E raised \in BOOLEAN :
               sd_pc' = IF raised THEN "except" ELSE "cleanup"
     ELSE /\ sd_pc' = "cleanup"
          /\ UNCHANGED sd_log
  /\ UNCHANGED <<sd_final, sd_auto, sd_scheduler, sd_monitor>>
  /\ UNCHANGED <<storeVars, sdOthers, fsVars, clVars, slVars>>

\* the except branch of shutdown going straight to its log line
ShutdownExceptNoFlush ==
  /\ sd_pc = "except"
  /\ sd_pc' = "done"
  /\ UNCHANGED <<sd_log, sd_final, sd_auto, sd_scheduler, sd_monitor>>
  /\ UNCHANGED <<storeVars, sdOthers, fsVars, clVars, slVars>>

\* the except branch of shutdown: self.knowledge_base.cleanup()
ShutdownExcept ==
  /\ sd_pc = "except"
  /\ CleanupWrites
  /\ sd_log' = Append(sd_log, "cleanup")
  /\ sd_pc' = "done"
  /\ UNCHANGED <<sd_final, sd_auto, sd_scheduler, sd_monitor>>
  /\ UNCHANGED <<buffer_a, buffer_b, active_buffer, snapshot_offset,
                 current_snapshot, stats, write_lock, compact_lock,
                 switch_lock, next_id, w_pc, w_loc, p_pc, p_loc>>
  /\ UNCHANGED <<hVars, sdOthers, slVars>>

\* self.knowledge_base.cleanup() at the end of the try block
ShutdownCleanup ==
  /\ sd_pc = "cleanup"
  /\ CleanupWrites
  /\ sd_log' = Append(sd_log, "cleanup")
  /\ sd_pc' = "done"
  /\ UNCHANGED <<sd_final, sd_auto, sd_scheduler, sd_monitor>>
  /\ UNCHANGED <<buffer_a, buffer_b, active_buffer, snapshot_offset,
                 current_snapshot, stats, write_lock, compact_lock,
                 switch_lock, next_id, w_pc, w_loc, p_pc, p_loc>>
  /\ UNCHANGED <<hVars, sdOthers, slVars>>

NextShutdown ==
  \/ ShutdownCall \/ FinalCheck \/ FinalPassStep \/ FinalPassFails
  \/ FinalPassReturn \/ ShutdownStopScheduler \/ ShutdownStopMonitoring
  \/ ShutdownExcept \/ ShutdownCleanup

(* ------------------ CompactionScheduler: loop thread ------------------ *)
\* most check cycles of the loop in a run
MaxCycles == 9

\* compression_ratio_threshold = 0.1 = 1 / CompressionRatioDen
CompressionRatioDen == 10

\* the step and the cap of `min(self.min_inactive_buffer_size + 10, 100)`
TriggerStep == 10

TriggerCap == 100

\* compression_ratio = 1.0 - final_count / original_count (0.0 for an
\* empty input) is below compression_ratio_threshold.  In doubles
\* 1.0 - 0.9 is 0.09999999999999998, which is below 0.1, so a pass that
\* removes exactly one record in ten compares as below the threshold
LowCompression(original_count, final_count) ==
  IF original_count > 0
  THEN CompressionRatioDen * (original_count - final_count) <= original_count
  ELSE TRUE

\* the raise without its cap
AdjustedTriggerNoCap(min_size, original_count, final_count) ==
  IF LowCompression(original_count, final_count)
  THEN min_size + TriggerStep
  ELSE min_size

\* min_inactive_buffer_size after a successful compaction and switch
AdjustedTrigger(min_size, original_count, final_count) ==
  IF LowCompression(original_count, final_count)
  THEN (IF min_size + TriggerStep < TriggerCap
        THEN min_size + TriggerStep ELSE TriggerCap)
  ELSE min_size

\* what the steps of the scheduler leave alone outside the store and
\* itself
slOthers == <<cqVars, apVars, schVars, fsVars, svVars, clVars, sdVars,
              grVars, mgVars, lateVars>>

\* start_scheduler()
StartScheduler ==
  /\ sl_pc = "none"
  /\ ~sl_running
  /\ sl_running' = TRUE
  /\ sl_stop' = FALSE
  /\ sl_pc' = "loop"
  /\ UNCHANGED <<sl_stats, sl_result, sl_min, sl_compacted>>
  /\ UNCHANGED <<storeVars, slOthers>>

\* stop_scheduler() of a running scheduler; the join returns after the
\* thread has exited or after 30 seconds, whichever comes first
StopScheduler ==
  /\ sl_running
  /\ StopSchedulerEffect
  /\ UNCHANGED <<storeVars, slOthers>>

\* `while self.is_running and not self.stop_event.is_set():`
LoopTest ==
  /\ sl_pc = "loop"
  /\ sl_pc' = IF sl_running /\ ~sl_stop THEN "wait" ELSE "exited"
  /\ UNCHANGED <<sl_running, sl_stop, sl_stats, sl_result, sl_min,
                 sl_compacted>>
  /\ UNCHANGED <<storeVars, slOthers>>

\* `if self.stop_event.wait(timeout=...): break`: the event is set, or
\* the interval runs out
LoopWait ==
  /\ sl_pc = "wait"
  /\ IF sl_stop THEN sl_pc' = "exited"
     ELSE sl_stats.attempts < MaxCycles /\ sl_pc' = "check"
  /\ UNCHANGED <<sl_running, sl_stop, sl_stats, sl_result, sl_min,
                 sl_compacted>>
  /\ UNCHANGED <<storeVars, slOthers>>

\* _check_and_compact up to `if should_compact:`
LoopCheck ==
  /\ sl_pc = "check"
  /\ write_lock = Free
  /\ sl_stats' = [sl_stats EXCEPT !.attempts = @ + 1]
  /\ stats' = StatsRefreshed
  /\ sl_result' = NoCompaction
  /\ \E time_since_last \in
         (IF sl_compacted THEN {0, MaxTimeSinceLastCompaction}
          ELSE {NeverCompacted}) :
       sl_pc' = IF ShouldCompactAt(sl_min, stats'.total_qa_pairs,
                                   stats'.active_buffer_size, time_since_last)
                THEN "pass" ELSE "loop"
  /\ UNCHANGED <<sl_running, sl_stop, sl_min, sl_compacted>>
  /\ UNCHANGED <<buffer_a, buffer_b, active_buffer, snapshot_offset,
                 current_snapshot, kb_file, write_lock, compact_lock,
                 switch_lock, next_id, w_pc, w_loc, p_pc, p_loc>>
  /\ UNCHANGED <<hVars, slOthers>>

\* the pass of the cycle has been through its switch
LoopPassDone == p_pc["sched"] = "idle" /\ sl_result.success

\* create_snapshot, compact_qa_pairs and switch_buffers_with_tail_sync of
\* the cycle, run by the loop thread
LoopPassStep ==
  /\ sl_pc = "pass"
  /\ ~LoopPassDone
  /\ p_pc["sched"] = "switch" => sl_result.success
  /\ PassNext("sched")

\* compaction_result = self.compactor.compact_qa_pairs(...) returned with
\* success; compact_qa_pairs has stamped last_compaction_time
LoopKeepResult ==
  /\ sl_pc = "pass"
  /\ p_pc["sched"] = "switch"
  /\ ~sl_result.success
  /\ sl_result' = [success |-> TRUE,
                   original_count |-> Len(p_loc["sched"].snapshot.data),
                   final_count |-> Len(p_loc["sched"].merged)]
  /\ sl_compacted' = TRUE
  /\ UNCHANGED <<sl_running, sl_stop, sl_pc, sl_stats, sl_min>>
  /\ UNCHANGED <<storeVars, slOthers>>

\* compact_qa_pairs returns success = False, or the cycle raises: the
\* pass ends without a switch
LoopPassFails ==
  /\ sl_pc = "pass"
  /\ p_pc["sched"] = "compact"
  /\ p_pc' = [p_pc EXCEPT !["sched"] = "idle"]
  /\ p_loc' = [p_loc EXCEPT !["sched"] = PIdleLoc]
  /\ sl_stats' = [sl_stats EXCEPT !.failed = @ + 1]
  /\ sl_pc' = "loop"
  /\ UNCHANGED <<sl_running, sl_stop, sl_result, sl_min, sl_compacted>>
  /\ UNCHANGED <<buffer_a, buffer_b, active_buffer, snapshot_offset,
                 current_snapshot, stats, kb_file, write_lock, compact_lock,
                 switch_lock, next_id, w_pc, w_loc>>
  /\ UNCHANGED <<hVars, slOthers>>

\* `if switch_success:` ... the trigger size is raised when the pass
\* compressed too little
LoopPassReturn ==
  /\ sl_pc = "pass"
  /\ LoopPassDone
  /\ sl_stats' = [sl_stats EXCEPT !.successful = @ + 1]
  /\ sl_min' = AdjustedTrigger(sl_min, sl_result.original_count,
                               sl_result.final_count)
  /\ sl_result' = NoCompaction
  /\ sl_pc' = "loop"
  /\ UNCHANGED <<sl_running, sl_stop, sl_compacted>>
  /\ UNCHANGED <<storeVars, slOthers>>

(* --- _check_and_compact as one step, the store's answers as inputs ---- *)
\* original_count of the compaction results a cycle is given
CycleOriginals == {0, CompressionRatioDen}

\* final_count for an input of original_count records: nothing removed,
\* one in ten, two in ten
CycleFinals(original_count) ==
  {c \in (original_count - 2)..original_count : c >= 0}

\* get_statistics() and the minutes since last_compaction_time, as the
\* cycle reads them
CycleReadings ==
  {[total |-> t, active |-> a, since |-> e] :
     t \in {MinQaPairsThreshold - 1, MinQaPairsThreshold},
     a \in {sl_min - 1, sl_min},
     e \in (IF sl_compacted THEN {0, MaxTimeSinceLastCompaction}
            ELSE {NeverCompacted})}

\* a cycle that finds nothing to do
CycleSkips ==
  /\ sl_pc = "none"
  /\ sl_stats.attempts < MaxCycles
  /\ \E r \in CycleReadings :
       ~ShouldCompactAt(sl_min, r.total, r.active, r.since)
  /\ sl_stats' = [sl_stats EXCEPT !.attempts = @ + 1]
  /\ sl_result' = NoCompaction
  /\ UNCHANGED <<sl_running, sl_stop, sl_pc, sl_min, sl_compacted>>
  /\ UNCHANGED <<storeVars, slOthers>>

\* a triggered cycle that counts a failure: create_snapshot returns None
\* or something raises, compact_qa_pairs returns success = False, or the
\* switch returns False after a compaction that succeeded
CycleFails ==
  /\ sl_pc = "none"
  /\ sl_stats.attempts < MaxCycles
  /\ \E r \in CycleReadings :
       ShouldCompactAt(sl_min, r.total, r.active, r.since)
  /\ sl_stats' = [sl_stats EXCEPT !.attempts = @ + 1, !.failed = @ + 1]
  /\ \E outcome \in {"no_snapshot", "compact_failed", "switch_failed"} :
       /\ sl_compacted' = (sl_compacted \/ outcome = "switch_failed")
       /\ sl_result' = NoCompaction
  /\ UNCHANGED <<sl_running, sl_stop, sl_pc, sl_min>>
  /\ UNCHANGED <<storeVars, slOthers>>

\* a triggered cycle whose compaction and switch both succeed
CycleSucceeds ==
  /\ sl_pc = "none"
  /\ sl_stats.attempts < MaxCycles
  /\ \E r \in CycleReadings :
       ShouldCompactAt(sl_min, r.total, r.active, r.since)
  /\ sl_stats' = [sl_stats EXCEPT !.attempts = @ + 1, !.successful = @ + 1]
  /\ \E original_count \in CycleOriginals :
       \E final_count \in CycleFinals(original_count) :
         /\ sl_result' = [success |-> TRUE, original_count |-> original_count,
                          final_count |-> final_count]
         /\ sl_min' = AdjustedTrigger(sl_min, original_count, final_count)
  /\ sl_compacted' = TRUE
  /\ UNCHANGED <<sl_running, sl_stop, sl_pc>>
  /\ UNCHANGED <<storeVars, slOthers>>

NextTrigger == CycleSkips \/ CycleFails \/ CycleSucceeds

NextSchedLoop ==
  \/ StartScheduler \/ StopScheduler \/ LoopTest \/ LoopWait \/ LoopCheck
  \/ LoopPassStep \/ LoopKeepResult \/ LoopPassFails \/ LoopPassReturn

InitAux == InitProc /\ InitSchedIdle /\ InitStatus /\ InitSave /\ InitRest

(* ----------------------------- merge engine --------------------------- *)
NoResult == [success |-> FALSE, returned |-> FALSE]

\* question texts of the input records
Questions == {<<"a">>, <<"A", " ">>, <<"b">>}

\* metadata of the input records: confidence missing, 0.7, 0.8, 0.9
InputMetadata == {EmptyMetadata} \cup {[confidence |-> c] : c \in 7..9}

\* input batches: the record at position k has id k and timestamp k
BatchesWithAnswers(QS, AS, MS) ==
  UNION {{[k \in 1..n |-> QAPair(k, q[k], a[k], k, m[k])] :
            q \in [1..n -> QS], a \in [1..n -> AS], m \in [1..n -> MS]} :
         n \in 0..MaxBatch}

\* input batches whose records all have the same answer text
Batches(QS, MS) == BatchesWithAnswers(QS, {<<"a">>}, MS)

\* replies of the grouping oracle
ReplyTokens == {Token(TRUE, v) : v \in 0..MaxIndex} \cup {Token(FALSE, 0)}

ReplyLines ==
  {ReplyLine(TRUE, t) : t \in SeqsOf(ReplyTokens, 1, MaxTokens)}
  \cup {ReplyLine(FALSE, <<Token(FALSE, 0)>>)}

Replies == SeqsOf(ReplyLines, 0, MaxReplyLines)

CqIdle ==
  /\ cq_pc = "input" /\ cq_unique = <<>> /\ cq_dups = <<>>
  /\ cq_groups = <<>> /\ cq_i = 0 /\ cq_out = <<>> /\ cq_merged = 0
  /\ cq_result = NoResult

InitDedup ==
  /\ cq_input \in Batches(Questions, InputMetadata)
  /\ CqIdle
  /\ InitStore
  /\ InitAux

InitCompact ==
  /\ cq_input \in Batches({<<"a">>, <<"A", " ">>, <<"b">>},
                           {EmptyMetadata, [confidence |-> 9]})
  /\ CqIdle
  /\ InitStore
  /\ InitAux

\* unique_qa_pairs, duplicates = self.detect_exact_duplicates(qa_pairs)
DetectDuplicates ==
  /\ cq_pc = "input"
  /\ cq_unique' = DetectExactDuplicates(cq_input).unique
  /\ cq_dups' = DetectExactDuplicates(cq_input).dups
  /\ cq_pc' = "deduped"
  /\ UNCHANGED <<cq_input, cq_groups, cq_i, cq_out, cq_merged, cq_result>>
  /\ UNCHANGED <<storeVars, auxVars>>

\* compact_qa_pairs up to the merge loop: exact dedup, then grouping with
\* the reply of the grouping oracle
CompactBegin ==
  /\ cq_pc = "input"
  /\ \E reply \in Replies :
       LET dd == DetectExactDuplicates(cq_input) IN
       /\ cq_unique' = dd.unique
       /\ cq_dups' = dd.dups
       /\ cq_groups' = FindSimilarGroups(dd.unique, reply)
  /\ cq_pc' = "merging"
  /\ UNCHANGED <<cq_input, cq_i, cq_out, cq_merged, cq_result>>
  /\ UNCHANGED <<storeVars, auxVars>>

\* one iteration of the merge loop
CompactMergeStep ==
  /\ cq_pc = "merging"
  /\ cq_i < Len(cq_groups)
  /\ \E mreply \in MergeReplies :
       LET group == cq_groups[cq_i + 1]
           newId == Len(cq_input) + cq_i + 1
       IN /\ cq_out' = Append(cq_out, CompactedItem(group, mreply, newId, newId))
          /\ cq_merged' = cq_merged + (IF CountsAsMerged(group, mreply) THEN 1 ELSE 0)
  /\ cq_i' = cq_i + 1
  /\ UNCHANGED <<cq_pc, cq_input, cq_unique, cq_dups, cq_groups, cq_result>>
  /\ UNCHANGED <<storeVars, auxVars>>

\* the return of compact_qa_pairs
CompactReturn ==
  /\ cq_pc = "merging"
  /\ cq_i = Len(cq_groups)
  /\ cq_result' = [success |-> TRUE, returned |-> TRUE,
                   original_count |-> Len(cq_input),
                   final_count |-> Len(cq_out),
                   duplicates_removed |-> Len(cq_dups),
                   groups_merged |-> cq_merged,
                   compacted_qa_pairs |-> cq_out]
  /\ cq_pc' = "done"
  /\ UNCHANGED <<cq_input, cq_unique, cq_dups, cq_groups, cq_i, cq_out, cq_merged>>
  /\ UNCHANGED <<storeVars, auxVars>>

\* inputs of the fallback heuristic: question texts, answer texts and
\* metadata with and without keywords and category
FallbackQuestions == {<<"a">>, <<"A", "b">>}

FallbackAnswers == {<<"a">>, <<"b">>}

FallbackMetadata ==
  {EmptyMetadata, [keywords |-> <<"a">>],
   [keywords |-> <<"a">>, category |-> "b"]}

InitOracleDown ==
  /\ cq_input \in BatchesWithAnswers(FallbackQuestions, FallbackAnswers,
                                      FallbackMetadata)
  /\ CqIdle
  /\ InitStore
  /\ InitAux

\* compact_qa_pairs up to the merge loop when the grouping oracle raises:
\* exact dedup, then the grouping of _fallback_similarity_analysis
CompactBeginOracleDown ==
  /\ cq_pc = "input"
  /\ LET dd == DetectExactDuplicates(cq_input) IN
       /\ cq_unique' = dd.unique
       /\ cq_dups' = dd.dups
       /\ cq_groups' = FindSimilarGroupsOracleDown(dd.unique)
  /\ cq_pc' = "merging"
  /\ UNCHANGED <<cq_input, cq_i, cq_out, cq_merged, cq_result>>
  /\ UNCHANGED <<storeVars, auxVars>>

\* one iteration of the merge loop when the merge oracle raises
CompactMergeStepOracleDown ==
  /\ cq_pc = "merging"
  /\ cq_i < Len(cq_groups)
  /\ LET group == cq_groups[cq_i + 1]
         newId == Len(cq_input) + cq_i + 1
     IN /\ cq_out' = Append(cq_out,
                            CompactedItem(group, NoMergeReply, newId, newId))
        /\ cq_merged' = cq_merged
                         + (IF CountsAsMerged(group, NoMergeReply) THEN 1 ELSE 0)
  /\ cq_i' = cq_i + 1
  /\ UNCHANGED <<cq_pc, cq_input, cq_unique, cq_dups, cq_groups, cq_result>>
  /\ UNCHANGED <<storeVars, auxVars>>

(* --------------------- a cycle of the scheduler ----------------------- *)
\* a cycle that finds the store and the compactor in some state around
\* the thresholds
InitSched ==
  /\ sch_pc = "check"
  /\ sch_total \in (MinQaPairsThreshold - Margin)..(MinQaPairsThreshold + Margin)
  /\ sch_active \in
       (MinInactiveBufferSize - Margin)..(MinInactiveBufferSize + Margin)
  /\ sch_last \in {NeverCompacted} \cup
       (MaxTimeSinceLastCompaction - Margin)..(MaxTimeSinceLastCompaction + Margin)
  /\ sch_started = FALSE
  /\ InitStore /\ InitProc /\ InitStatus /\ InitSave /\ InitRest
  /\ cq_input = <<>> /\ CqIdle

\* _check_and_compact up to `if should_compact:`
CheckAndCompact ==
  /\ sch_pc = "check"
  /\ sch_started' = ShouldCompact(sch_total, sch_active, sch_last)
  /\ sch_pc' = "done"
  /\ UNCHANGED <<sch_total, sch_active, sch_last>>
  /\ UNCHANGED <<storeVars, cqVars, apVars, fsVars, svVars, restVars>>

NextSched == CheckAndCompact

NextDedup == DetectDuplicates

NextOracleDown ==
  CompactBeginOracleDown \/ CompactMergeStepOracleDown \/ CompactReturn

NextCompact == CompactBegin \/ CompactMergeStep \/ CompactReturn

Init == InitStore /\ InitAux /\ cq_input = <<>> /\ CqIdle

\* appends racing with the passes of the scheduler and of a manual trigger
Next == (\E w \in Writers : WriterNext(w)) \/ (\E p \in Passes : PassNext(p))

\* appends racing with the passes of the scheduler alone
NextOnePass == (\E w \in Writers : WriterNext(w)) \/ PassNext("sched")

Spec == Init /\ [][Next]_vars

SpecOnePass == Init /\ [][NextOnePass]_vars

SpecDedup == InitDedup /\ [][NextDedup]_vars

SpecCompact == InitCompact /\ [][NextCompact]_vars

SpecOracleDown == InitOracleDown /\ [][NextOracleDown]_vars

SpecSched == InitSched /\ [][NextSched]_vars

SpecStatus == Init /\ [][NextStatus]_vars

\* the records _load_existing_data finds in the knowledge file
Preloaded(k) ==
  [i \in 1..k |-> QAPair(i, StoreQuestion(i), StoreAnswer, i, EmptyMetadata)]

\* DualBufferKnowledgeBase.__init__ with a knowledge file of k records
InitStoreLoaded(k) ==
  /\ buffer_a = Preloaded(k)
  /\ next_id = k + 1
  /\ stats = [total_qa_pairs |-> k, total_writes |-> 0, total_compacts |-> 0,
              active_buffer_size |-> 0, inactive_buffer_size |-> 0]
  /\ kb_file = Preloaded(k)
  /\ buffer_b = <<>>
  /\ active_buffer = "A"
  /\ snapshot_offset = 0
  /\ current_snapshot = NoSnapshot
  /\ write_lock = Free /\ compact_lock = Free /\ switch_lock = Free
  /\ w_pc = [w \in Writers |-> "idle"]
  /\ w_loc = [w \in Writers |-> WIdleLoc]
  /\ p_pc = [p \in Passes |-> "idle"]
  /\ p_loc = [p \in Passes |-> PIdleLoc]
  /\ h_appended = <<>>
  /\ h_win = [p \in Passes |-> <<>>]
  /\ h_in = [w \in Writers |-> {}]
  /\ h_quiet = [p \in Passes |-> FALSE]
  /\ h_overlap = FALSE
  /\ h_pre = [p \in Passes |-> NoPre]
  /\ h_runs = 0

\* a processor about to shut down: a store loaded with about
\* final_compression_threshold records, with or without a scheduler (running
\* or not) and a system monitor
InitShutdown ==
  /\ \E k \in (FinalCompressionThreshold - Margin)..
              (FinalCompressionThreshold + Margin) : InitStoreLoaded(k)
  /\ InitProc /\ InitSchedIdle /\ InitStatus /\ InitSave /\ InitCleanup
  /\ InitGroupingIdle /\ InitMergeIdle /\ InitLateIdle
  /\ cq_input = <<>> /\ CqIdle
  /\ sd_pc = "idle" /\ sd_log = <<>> /\ sd_final = "none"
  /\ sd_auto \in BOOLEAN
  /\ sd_scheduler \in BOOLEAN
  /\ sd_monitor \in BOOLEAN
  /\ sl_running \in (IF sd_scheduler THEN BOOLEAN ELSE {FALSE})
  /\ sl_stop = FALSE
  /\ sl_pc = IF sl_running THEN "wait" ELSE "none"
  /\ InitSchedCounters

SpecShutdown == InitShutdown /\ [][NextShutdown]_vars

\* a scheduler not yet started over a store loaded with about
\* min_qa_pairs_threshold records
InitSchedLoopRun ==
  /\ \E k \in (MinQaPairsThreshold - Margin)..(MinQaPairsThreshold + Margin) :
       InitStoreLoaded(k)
  /\ InitProc /\ InitSchedIdle /\ InitStatus /\ InitSave /\ InitRest
  /\ cq_input = <<>> /\ CqIdle

SpecSchedLoop == InitSchedLoopRun /\ [][NextSchedLoop]_vars

\* the cycles of a scheduler alone
SpecTrigger == Init /\ [][NextTrigger]_vars

SpecCleanup == Init /\ [][NextCleanup]_vars

\* appends and save() calls while another process uses the lock file
NextSave == (\E w \in Writers : WriterNext(w)) \/ SaveNext

SpecSave == Init /\ [][NextSave]_vars

SpecDispatch == Init /\ [][NextDispatch]_vars

SpecProc == Init /\ [][NextProc]_vars

SpecCallback == Init /\ [][NextCallback]_vars

\* metadata of the records handed to find_similar_groups
GroupingMetadata == {EmptyMetadata, [keywords |-> <<"a">>]}

\* find_similar_groups about to be called on a batch
InitGrouping ==
  /\ g_input \in BatchesWithAnswers(FallbackQuestions, {StoreAnswer},
                                     GroupingMetadata)
  /\ g_reply = <<>> /\ g_groups = <<>> /\ g_done = FALSE
  /\ InitStore /\ InitProc /\ InitSchedIdle /\ InitStatus /\ InitSave
  /\ InitCleanup /\ InitSchedLoop /\ InitShutdownIdle /\ InitMergeIdle
  /\ InitLateIdle
  /\ cq_input = <<>> /\ CqIdle

\* find_similar_groups(qa_pairs) with the oracle answering reply
FindSimilarGroupsCall ==
  /\ ~g_done
  /\ \E reply \in Replies :
       /\ g_reply' = reply
       /\ g_groups' = FindSimilarGroups(g_input, reply)
  /\ g_done' = TRUE
  /\ UNCHANGED g_input
  /\ UNCHANGED <<storeVars, cqVars, apVars, schVars, fsVars, svVars, clVars,
                 slVars, sdVars, mgVars, lateVars>>

NextGrouping == FindSimilarGroupsCall

SpecGrouping == InitGrouping /\ [][NextGrouping]_vars

\* most lines of a merge reply
MaxMergeLines == 3

\* the lines of the merge oracle's replies
MergeLines ==
  {MergeLine(k, t) : k \in {"Q", "A"}, t \in {<<>>, <<"b">>}}
  \cup {MergeLine("other", <<"c">>), MergeLine("blank", <<>>)}

MergeTexts == SeqsOf(MergeLines, 0, MaxMergeLines)

\* _parse_simple_merge_response about to be called on a group
InitMerge ==
  /\ m_group \in Batches({<<"a">>}, {EmptyMetadata, [confidence |-> 9]})
  /\ m_reply = <<>> /\ m_done = FALSE
  /\ m_out = [none |-> TRUE, qa |-> [id |-> 0]]
  /\ InitStore /\ InitProc /\ InitSchedIdle /\ InitStatus /\ InitSave
  /\ InitCleanup /\ InitSchedLoop /\ InitShutdownIdle /\ InitGroupingIdle
  /\ InitLateIdle
  /\ cq_input = <<>> /\ CqIdle

\* _parse_simple_merge_response(response_text, original_qa_pairs); uuid4()
\* and now() are drawn from past the ids of the group
ParseSimpleMergeResponseCall ==
  /\ ~m_done
  /\ \E lines \in MergeTexts :
       /\ m_reply' = lines
       /\ m_out' = ParseSimpleMergeResponse(lines, m_group, Len(m_group) + 1,
                                            Len(m_group) + 1)
  /\ m_done' = TRUE
  /\ UNCHANGED m_group
  /\ UNCHANGED <<storeVars, cqVars, apVars, schVars, fsVars, svVars, clVars,
                 slVars, sdVars, grVars, lateVars>>

NextMerge == ParseSimpleMergeResponseCall

SpecMerge == InitMerge /\ [][NextMerge]_vars

SpecFileLock == Init /\ [][NextFileLock]_vars

SpecWait == Init /\ [][NextWait]_vars

\* a store holding up to MaxStored records appended one after another
InitRoundTrip ==
  /\ \E n \in 0..MaxStored :
       \E qs \in [1..n -> LineTexts] : \E as \in [1..n -> LineTexts] :
         rt_buffer = [i \in 1..n |-> QAPair(i, qs[i], as[i], i, EmptyMetadata)]
  /\ rt_orig = rt_buffer
  /\ rt_prev = <<>>
  /\ rt_pc = "store" /\ rt_file = <<>> /\ rt_trips = 0
  /\ InitStore /\ InitProc /\ InitSchedIdle /\ InitStatus /\ InitSave
  /\ InitCleanup /\ InitSchedLoop /\ InitShutdownIdle /\ InitGroupingIdle
  /\ InitMergeIdle /\ InitFileLockIdle /\ InitAtomicSaveIdle
  /\ InitCleanupRaceIdle
  /\ cq_input = <<>> /\ CqIdle

SpecRoundTrip == InitRoundTrip /\ [][NextRoundTrip]_vars

SpecCleanupRace == Init /\ [][NextCleanupRace]_vars

SpecAtomicSave == Init /\ [][NextAtomicSave]_vars

SpecPriority == Init /\ [][NextPriority]_vars

\* the worker thread and every pool thread keep running while they have
\* a step to take
SpecCallbackFair ==
  /\ SpecCallback
  /\ WF_vars(WorkerNext)
  /\ \A f \in FutureIds : WF_vars(FutureStart(f) \/ TaskReturn(f))

\* the worker thread, the pool threads and the calling thread each keep
\* running while they have a step to take
SpecProcFair ==
  /\ SpecProc
  /\ WF_vars(WorkerNext) /\ WF_vars(PoolNext) /\ WF_vars(CallerNext)

(* ===================== properties of the merge engine ================== *)
\* positions of the input whose normalized question text is key
KeyGroup(key) == {k \in 1..Len(cq_input) : QuestionKey(cq_input[k]) = key}

\* the position detect_exact_duplicates must keep for key: the earliest
\* one among those of maximum confidence
BestOf(key) ==
  CHOOSE k \in KeyGroup(key) :
    /\ \A j \in KeyGroup(key) : Confidence(cq_input[j]) <= Confidence(cq_input[k])
    /\ \A j \in KeyGroup(key) :
         Confidence(cq_input[j]) = Confidence(cq_input[k]) => k <= j

InputKeys == {QuestionKey(cq_input[k]) : k \in 1..Len(cq_input)}

\* C9: detect_exact_duplicates keeps exactly one record per normalized
\* question text, the one of maximum confidence (the earliest on ties, a
\* missing confidence counting as 0.8), and unique plus duplicates is a
\* rearrangement of the input.
C9_DedupKeepsBest ==
  cq_pc = "deduped" =>
    /\ \A key \in InputKeys :
         /\ Cardinality({k \in 1..Len(cq_unique) :
                           QuestionKey(cq_unique[k]) = key}) = 1
         /\ \E k \in 1..Len(cq_unique) : cq_unique[k] = cq_input[BestOf(key)]
    /\ \A k \in 1..Len(cq_unique) : QuestionKey(cq_unique[k]) \in InputKeys
    /\ Len(cq_unique) + Len(cq_dups) = Len(cq_input)
    /\ \A k \in 1..Len(cq_input) :
         Count(cq_unique \o cq_dups, cq_input[k]) = Count(cq_input, cq_input[k])

\* a 0.7 record followed by a 0.9 record and by a tie of the same text
C9_Witness ==
  /\ cq_pc = "deduped"
  /\ Len(cq_input) = 3
  /\ QuestionKey(cq_input[1]) = QuestionKey(cq_input[2])
  /\ QuestionKey(cq_input[2]) = QuestionKey(cq_input[3])
  /\ cq_input[1].question # cq_input[2].question
  /\ Confidence(cq_input[1]) = 7
  /\ Confidence(cq_input[2]) = 9
  /\ Confidence(cq_input[3]) = 9
  /\ cq_unique = <<cq_input[2]>>
  /\ cq_dups = <<cq_input[1], cq_input[3]>>

\* ids of the records of a list
IdSet(qa_pairs) == {qa_pairs[k].id : k \in 1..Len(qa_pairs)}

\* ids named in the lineage of the records of a list
LineageSet(qa_pairs) ==
  UNION {Range(OriginalIds(qa_pairs[k])) : k \in 1..Len(qa_pairs)}

\* id is kept verbatim or named in a lineage
Represented(id, qa_pairs) == id \in IdSet(qa_pairs) \cup LineageSet(qa_pairs)

\* C2: a successful compact_qa_pairs conserves ids: every input id is
\* the id of an output record or is listed in the lineage of one.
C2_IdsConserved ==
  (cq_pc = "done" /\ cq_result.success) =>
    \A id \in IdSet(cq_input) :
      Represented(id, cq_result.compacted_qa_pairs)

ActiveAfter == BufOf(active_buffer', buffer_a', buffer_b')

\* the inactive buffer after a step
InactiveAfter == BufOf(Other(active_buffer'), buffer_a', buffer_b')

\* the step in which pass p enters create_snapshot
SnapshotCalled(p) == p_pc[p] = "idle" /\ p_pc'[p] = "snap_offset"

\* the step in which pass p enters switch_buffers_with_tail_sync
SwitchCalled(p) == p_pc[p] = "switch" /\ p_pc'[p] # "switch"

\* the step in which switch_buffers_with_tail_sync of pass p returns
SwitchReturned(p) == p_pc[p] = "x_save" /\ p_pc'[p] = "idle"

\* C1: with a single compaction pass at a time, every record appended
\* before the first create_snapshot is in its snapshot, and every record
\* whose append began after the snapshot and returned True before the
\* switch returned is in the active buffer when the switch returns.
C1_TailSurvivesSwitch ==
  [][\A p \in Passes :
       /\ (SnapshotCalled(p) /\ h_runs = 0) =>
            \A k \in 1..Len(h_appended) :
              h_appended[k] \in Range(current_snapshot'.data)
       /\ SwitchReturned(p) =>
            \A k \in 1..Len(h_win[p]) : h_win[p][k] \in Range(ActiveAfter)
    ]_vars

\* C3: a switch that no append call overlapped, after a snapshot that no
\* append call overlapped, leaves merged followed by the records appended
\* in between (in append order) in the new active buffer, the other
\* buffer empty, the roles flipped and the snapshot state cleared.
C3_SwitchInstallsMergedPlusTail ==
  [][\A p \in Passes :
       (SwitchReturned(p) /\ h_quiet[p]) =>
         /\ ActiveAfter = p_loc[p].merged \o h_win[p]
         /\ InactiveAfter = <<>>
         /\ active_buffer' = Other(p_loc[p].old_active)
         /\ current_snapshot' = NoSnapshot
         /\ snapshot_offset' = 0
    ]_vars

\* a quiet pass whose snapshot and tail are both non-empty has switched
C3_Witness ==
  /\ p_pc["sched"] = "x_save"
  /\ h_quiet["sched"]
  /\ p_loc["sched"].snapshot.data # <<>>
  /\ p_loc["sched"].merged # <<>>
  /\ h_win["sched"] # <<>>
  /\ GetActiveBuffer = p_loc["sched"].merged \o h_win["sched"]

\* C4: whenever no switch is in progress the inactive buffer is empty,
\* exactly one buffer is named active, and every append lands in the
\* buffer that is active when it is made.
C4_InactiveEmpty ==
  /\ [](active_buffer \in {"A", "B"})
  /\ [](switch_lock = Free => GetInactiveBuffer = <<>>)
  /\ [][\A w \in Writers :
          (w_pc[w] = "extend" /\ w_pc'[w] = "finish") =>
            /\ w_loc[w].ref = active_buffer
            /\ \A k \in 1..Len(w_loc[w].qa_pairs) :
                 w_loc[w].qa_pairs[k] \in Range(ActiveAfter)
       ]_vars

\* C5: create_snapshot called while a snapshot is pending returns no
\* snapshot and leaves current_snapshot and snapshot_offset as they are.
C5_PendingSnapshotRefused ==
  [][\A p \in Passes :
       (SnapshotCalled(p) /\ current_snapshot # NoSnapshot) =>
         /\ current_snapshot' = current_snapshot
         /\ snapshot_offset' = snapshot_offset
         /\ p_loc'[p].snapshot = NoSnapshot
    ]_vars

\* no record occupies two positions of the list
NoDuplicates(qa_pairs) ==
  \A i, j \in 1..Len(qa_pairs) : i # j => qa_pairs[i] # qa_pairs[j]

\* C6: once two overlapping passes have both finished and no append is
\* in progress, every appended record is represented in the active buffer
\* and no record is in it twice.
C6_OverlappingPassesSerialized ==
  (/\ h_overlap
   /\ \A p \in Passes : p_pc[p] = "idle"
   /\ \A w \in Writers : w_pc[w] = "idle") =>
    /\ NoDuplicates(GetActiveBuffer)
    /\ \A k \in 1..Len(h_appended) :
         Represented(h_appended[k].id, GetActiveBuffer)

\* no snapshot is pending: none was taken, or another switch consumed it
Mismatched ==
  current_snapshot = NoSnapshot

\* C7: a switch called when no snapshot is pending, or when the pending
\* one is not the caller's, returns False and leaves both buffers, the
\* active-buffer pointer and the durable file unchanged.
C7_MismatchedSwitchAborts ==
  [][\A p \in Passes :
       (SwitchCalled(p) /\ Mismatched) =>
         /\ p_pc'[p] = "idle"
         /\ ~p_loc'[p].result
         /\ UNCHANGED <<buffer_a, buffer_b, active_buffer, kb_file>>
    ]_vars

\* C8: a switch returns True only when the durable file holds the new
\* buffers; otherwise it returns False and buffers, pointer, pending
\* snapshot and file are as the call found them.
C8_SwitchAllOrNothing ==
  [][\A p \in Passes :
       SwitchReturned(p) =>
         \/ /\ p_loc'[p].result
            /\ kb_file' = SavedImage(buffer_a', buffer_b')
         \/ /\ ~p_loc'[p].result
            /\ h_pre[p] = [buffer_a |-> buffer_a', buffer_b |-> buffer_b',
                           active_buffer |-> active_buffer',
                           current_snapshot |-> current_snapshot',
                           snapshot_offset |-> snapshot_offset',
                           kb_file |-> kb_file']
    ]_vars

Processing == {t \in 1..MaxTasks : GetTaskStatus(t) = "processing"}

\* C13: never more than max_concurrent_tasks tasks are in active_tasks or
\* reported 'processing', and never more than that many task bodies
\* execute at the same time.
C13_ConcurrencyBounded ==
  /\ Cardinality(DOMAIN ap_active) <= MaxConcurrentTasks
  /\ Cardinality(Processing) <= MaxConcurrentTasks
  /\ Cardinality(Executing) <= MaxConcurrentTasks

\* every worker is busy and a task is waiting for one
C13_Witness ==
  /\ Cardinality(DOMAIN ap_active) = MaxConcurrentTasks
  /\ Cardinality(Executing) = MaxConcurrentTasks
  /\ ap_queue # <<>>
  /\ d_pc = "top"

\* every execution of task t failed and its retries are exhausted
RetriesExhausted(t) ==
  \E f \in 1..Len(ap_fut) : ap_fut[f].task_id = t /\ ap_fut[f].st = "final"

\* C14: a task whose retries are exhausted is never reported 'completed'.
C14_ExhaustedNeverCompleted ==
  \A t \in 1..MaxTasks : RetriesExhausted(t) => GetTaskStatus(t) # "completed"

\* C15: stop(wait_for_completion=True) returns, whatever the state of the
\* processor when it is called.
C15_DrainingStopReturns == (c_pc = "stop_wait") ~> (c_pc = "stopped")

\* C16: wait_for_all_tasks returns 'completed' only when no task is in
\* the queue, in the hand of the worker thread, or in a future that is
\* not done.
C16_CompletedMeansIdle ==
  [][(c_pc \in {"wait", "stop_wait"} /\ c_pc' # c_pc
        /\ c_result' = "completed") =>
       /\ ap_queue = <<>>
       /\ d_task = NoTask
       /\ \A f \in 1..Len(ap_fut) : Done(f)
    ]_vars

(* ================== properties of CompactionScheduler ================== *)
\* C17: a check cycle starts a compaction pass exactly when the total
\* record count, the active-buffer size or the time since the last
\* compaction has reached its threshold; each alone is sufficient.
C17_TriggerIsDisjunction ==
  sch_pc = "done" =>
    (sch_started <=>
       \/ sch_total >= MinQaPairsThreshold
       \/ sch_active >= MinInactiveBufferSize
       \/ (sch_last # NeverCompacted /\ sch_last >= MaxTimeSinceLastCompaction))

(* =================== properties of the file status ==================== *)
\* position of a status in PROCESSING < ASR_COMPLETED < LLM_COMPLETED <
\* CLEAN_FINISHED < QA_EXTRACTED < COMPACTED; a source with no entry
\* stands before all of them
Rank(status) ==
  IF status = NoStatus THEN 0
  ELSE CHOOSE i \in 1..Len(StatusOrder) : StatusOrder[i] = status

\* C18: no operation of the collaborators moves the status recorded for a
\* source to a state earlier in the order.
C18_StatusForwardOnly ==
  [][\A f \in Files : Rank(file_status_map'[f]) >= Rank(file_status_map[f])]_vars

(* ==================== properties of the store locks =================== *)
\* pass p is inside compact_qa_pairs, where the oracle is called
OracleCallInProgress(p) == p_pc[p] = "compact"

\* the store locks thread t holds
LocksHeld(t) ==
  {l \in {"write", "compact", "switch"} :
     \/ l = "write" /\ write_lock = t
     \/ l = "compact" /\ compact_lock = t
     \/ l = "switch" /\ switch_lock = t}

\* C19: a thread with an oracle call in progress holds none of the
\* store's write, compaction and switch locks.
C19_NoOracleCallUnderLock ==
  \A p \in Passes : OracleCallInProgress(p) => LocksHeld(p) = {}

\* an append is inside its write-lock section while the pass is calling
\* the oracle
C19_Witness ==
  /\ OracleCallInProgress("sched")
  /\ \E w \in Writers : w_pc[w] = "extend" /\ LocksHeld(w) = {"write"}

(* ===================== properties of durable writes =================== *)
\* the step in which a save() whose lock request timed out returns
SaveTimedOut == sv_pc = "locking" /\ sv_pc' = "idle" /\ sv_timeout'

\* C20: a save() that cannot get the file lock within its timeout
\* returns False and leaves the durable file as it was.
C20_LockTimeoutFailsSave ==
  [][SaveTimedOut => (sv_result' = "False" /\ kb_file' = kb_file)]_vars

(* ======================== properties of cleanup ======================= *)
\* the step of a cleanup() call
CleanupCalled == cl_calls' = cl_calls + 1

\* C21: a cleanup() call, the first or a later one, also after a call that
\* could not persist, raises nothing and leaves both buffers and the
\* ledger as they were in memory; when its writes succeed, the durable
\* file holds the records of the two buffers and the ledger file holds
\* the ledger.
C21_CleanupIdempotent ==
  [][CleanupCalled =>
       /\ cl_last' # "raised"
       /\ buffer_a' = buffer_a /\ buffer_b' = buffer_b
       /\ active_buffer' = active_buffer
       /\ file_status_map' = file_status_map
       /\ cl_last' = "saved" =>
            /\ kb_file' = SortByTimestamp(buffer_a \o buffer_b)
            /\ status_file' = file_status_map
    ]_vars

\* a second cleanup() that persisted records and ledger after a first one
\* that could not
C21_Witness ==
  /\ cl_calls = 2
  /\ cl_failed
  /\ cl_last = "saved"
  /\ kb_file # <<>>
  /\ \E f \in Files : status_file[f] = "qa_extracted"

(* ======================= properties of shutdown ======================= *)
\* C22: with auto-compaction enabled, a finished shutdown has called the
\* final compaction first, stopped the scheduler (when there is one) right
\* after it, and called the store's cleanup last, whatever the final
\* compaction came to and whether or not stopping the scheduler raised.
C22_ShutdownOrder ==
  (sd_pc = "done" /\ sd_auto) =>
    /\ sd_log # <<>>
    /\ sd_log[1] = "final_compaction"
    /\ sd_final # "none"
    /\ sd_scheduler => (Len(sd_log) >= 2 /\ sd_log[2] = "stop_scheduler")
    /\ sd_log[Len(sd_log)] = "cleanup"
    /\ cl_calls = 1

\* a shutdown whose final pass failed and whose stop_scheduler raised
\* (the monitor, which exists, was never stopped)
C22_Witness ==
  /\ sd_pc = "done"
  /\ sd_auto
  /\ sd_monitor
  /\ sd_final = "compression_failed"
  /\ sd_log = <<"final_compaction", "stop_scheduler", "cleanup">>
  /\ cl_calls = 1

(* =================== properties of the scheduler loop ================= *)
\* the scheduler's pass is between its create_snapshot and the end of
\* its switch
PassInFlight == p_pc["sched"] # "idle"

\* the step in which the scheduler's pass begins
PassStarts == ~PassInFlight /\ PassInFlight'

\* the step in which the pass ends: its switch returns, or the cycle
\* counts a failure of its own
PassEndsByItself ==
  \/ p_pc["sched"] = "x_save"
  \/ sl_stats'.failed = sl_stats.failed + 1

\* C23: once stop_scheduler has been requested, a pass in flight is not
\* cancelled (it stays in flight until its switch returns or it fails by
\* itself), and the loop starts no further pass.
C23_StopLetsPassFinish ==
  [][sl_stop =>
       /\ (PassInFlight /\ ~PassInFlight') => PassEndsByItself
       /\ ~PassStarts
    ]_vars

(* ================ properties of the trigger size ====================== *)
\* C29: min_inactive_buffer_size changes only in a cycle whose compaction
\* and switch succeeded with a compression ratio below the threshold, and
\* then to min(old + 10, 100); it never decreases and stays in 20..100.
C29_TriggerSizeOnlyGrows ==
  [][/\ sl_min \in MinInactiveBufferSize..TriggerCap
     /\ sl_min' \in MinInactiveBufferSize..TriggerCap
     /\ sl_min' >= sl_min
     /\ sl_min' # sl_min =>
          /\ sl_stats'.successful = sl_stats.successful + 1
          /\ sl_result'.success
          /\ LowCompression(sl_result'.original_count,
                            sl_result'.final_count)
          /\ sl_min' = sl_min + TriggerStep \/ sl_min' = TriggerCap
          /\ sl_min' <= sl_min + TriggerStep
    ]_vars

\* a low-compression success of a scheduler already at the cap
C29_Witness ==
  /\ sl_min = TriggerCap
  /\ sl_result.success
  /\ LowCompression(sl_result.original_count, sl_result.final_count)
  /\ sl_stats.successful * TriggerStep > TriggerCap - MinInactiveBufferSize

(* ================== properties of completion callbacks ================ *)
\* the task waits in the queue, is in the worker thread's hand, or is in
\* active_tasks
QueuedOrActive(t) ==
  \/ t \in QueuedIds
  \/ d_pc = "held" /\ d_task.task_id = t
  \/ t \in DOMAIN ap_active

\* the body of the task has run to its end with a result
BodyFinished(t) ==
  \E f \in 1..Len(ap_fut) :
    ap_fut[f].task_id = t /\ ap_fut[f].st \in {"returned", "final"}

\* C24: a task whose completion callback raised is recorded as completed
\* and is no longer in the active set, and every task that is queued or
\* active once a callback has raised is still run to its end.
C24_RaisingCallbackIsContained ==
  /\ [](\A t \in CallbackRaised :
          t \in ap_completed /\ t \notin DOMAIN ap_active)
  /\ \A u \in 1..MaxTasks :
       (CallbackRaised # {} /\ QueuedOrActive(u)) ~> BodyFinished(u)

\* the callback of the first task raised, and the second task, dispatched
\* after it, has returned
C24_Witness ==
  /\ CallbackRaised = {1}
  /\ ap_fut # <<>> /\ ap_fut[1].task_id = 1
  /\ 2 \in DOMAIN ap_active
  /\ ap_fut[ap_active[2]].st = "returned"

(* ===================== properties of task priority =================== *)
\* the step in which the worker thread hands d_task to the executor
Dispatches == d_pc = "held" /\ Len(ap_fut') = Len(ap_fut) + 1

\* C25: a task is handed to the pool only when no task that was waiting
\* in the queue with it has a higher priority.
C25_HigherPriorityFirst ==
  [][Dispatches =>
       \A u \in d_behind :
         ap_args[u].priority <= ap_args[d_task.task_id].priority
    ]_vars

(* ======================== properties of retries ======================= *)
\* executions of the body of task t begun so far
Executions(t) ==
  {f \in 1..Len(ap_fut) : ap_fut[f].task_id = t /\ ap_fut[f].st # "pending"}

\* every retry counter carried by a task: in the queue, in the worker
\* thread's hand, with a future
RetryCounters ==
  {ap_queue[k].retries : k \in 1..Len(ap_queue)}
    \cup {d_task.retries} \cup {ap_fut[f].retries : f \in 1..Len(ap_fut)}

RetriesBounded ==
  /\ \A r \in RetryCounters : r <= MaxRetries
  /\ \A t \in 1..MaxTasks : Cardinality(Executions(t)) <= MaxRetries + 1

\* the queue entries of a retry: tasks with a counter above 0
RetryEntries(queue) == {k \in 1..Len(queue) : queue[k].retries > 0}

\* the step puts a task on the queue for a retry
ReEnqueues ==
  /\ Cardinality(RetryEntries(ap_queue')) > Cardinality(RetryEntries(ap_queue))
  /\ ~(d_pc = "held" /\ d_pc' = "top")

ParsedLines(reply) ==
  {k \in 1..Len(reply) : reply[k].group /\ LineParses(reply[k])}

\* those naming at least two indices
GroupLines(reply) == {k \in ParsedLines(reply) : Len(reply[k].toks) >= 2}

\* C26: a reply without any well-formed GROUP line makes grouping fall
\* back to the heuristic of _fallback_similarity_analysis.
C26_UnparseableReplyFallsBack ==
  (g_done /\ Len(g_input) >= 2 /\ ParsedLines(g_reply) = {}) =>
    g_groups = FindSimilarGroupsOracleDown(g_input)

\* positions of the returned groups that hold record i of the batch
PlacesOf(i) ==
  {<<k, j>> \in (1..Len(g_groups)) \X (1..Len(g_input)) :
     j <= Len(g_groups[k]) /\ g_groups[k][j] = g_input[i]}

\* C27: the returned groups partition the batch; every GROUP line with
\* two or more indices gives one group of two or more; every index not
\* named by such a line is returned as a single.
C27_GroupsPartitionBatch ==
  (g_done /\ Len(g_input) >= 2) =>
    /\ \A i \in 1..Len(g_input) : Cardinality(PlacesOf(i)) = 1
    /\ Cardinality({k \in 1..Len(g_groups) : Len(g_groups[k]) > 1})
         = Cardinality(GroupLines(g_reply))
    /\ \A i \in 1..Len(g_input) :
         (\A k \in GroupLines(g_reply) :
            \A t \in 1..Len(g_reply[k].toks) : g_reply[k].toks[t].v # i - 1)
         => <<g_input[i]>> \in Range(g_groups)

(* =============== properties of _parse_simple_merge_response =========== *)
\* no 'Q:' line of the reply carries a text
NoQuestionIn(reply) ==
  \A k \in 1..Len(reply) : reply[k].kind = "Q" => reply[k].text = <<>>

\* no 'A:' line of the reply carries a text or is followed by a text line
NoAnswerIn(reply) ==
  \A k \in 1..Len(reply) :
    reply[k].kind = "A" =>
      /\ reply[k].text = <<>>
      /\ \A j \in (k + 1)..Len(reply) : reply[j].kind # "other"

\* C28: a merge that returns a record returns a new one: its id is no
\* input id, original_ids are the ids of the group in order and
\* original_count is its size; the group is left as it was; a reply with
\* no question or no answer to extract returns no record.
C28_MergeMakesNewRecord ==
  [][/\ m_group' = m_group
     /\ (m_done' /\ ~m_out'.none) =>
          /\ \A k \in 1..Len(m_group) : m_out'.qa.id # m_group[k].id
          /\ OriginalIds(m_out'.qa) = [k \in 1..Len(m_group) |-> m_group[k].id]
          /\ m_out'.qa.metadata.original_count = Len(m_group)
     /\ (m_done' /\ (NoQuestionIn(m_reply') \/ NoAnswerIn(m_reply'))) =>
          m_out'.none
    ]_vars

\* a group of two merged into a record
C28_Witness ==
  /\ m_done /\ ~m_out.none
  /\ Len(m_group) >= 2
  /\ m_out.qa.question = <<"b">>

(* ==================== properties of the status ledger ================= *)
\* caller x returns from process_cleaned_file with success
ExtractionSucceeds(x) ==
  /\ x_pc[x] = "extract" /\ x_pc'[x] = "idle"
  /\ x_result'[x] \in {"extracted", "empty"}

\* caller x updates the status of file f to status
UpdatesTo(x, f, status) ==
  \/ /\ status = "clean_finished"
     /\ x_pc[x] = "idle" /\ x_pc'[x] = "extract" /\ x_file'[x] = f
  \/ /\ status = "qa_extracted"
     /\ x_pc[x] = "extract" /\ x_pc'[x] = "idle" /\ x_file[x] = f
     /\ x_result'[x] = "extracted"

\* C31: an update of a file's status overwrites whatever it held and
\* leaves the other files' entries alone, the work queue is the set of
\* files whose status is CLEAN_FINISHED, and a file whose extraction
\* returned success is no longer in the work queue.
C31_StatusOverwrites ==
  [][/\ \A x \in Extractors : \A f \in Files : \A status \in Statuses :
          UpdatesTo(x, f, status) =>
            /\ file_status_map'[f] = status
            /\ \A g \in Files \ {f} :
                  file_status_map'[g] = file_status_map[g]
     /\ \A f \in Files :
          (f \in GetCleanFinishedFiles') <=>
            (file_status_map'[f] = "clean_finished")
     /\ \A x \in Extractors :
          ExtractionSucceeds(x) => x_file[x] \notin GetCleanFinishedFiles'
    ]_vars

(* ==================== properties of file_lock ========================= *)
\* callers inside the protected block
InBlock == {l \in Lockers : fl_pc[l] = "block"}

\* C32: no two callers are in the block with one of them exclusive; a
\* call that ends with TimeoutError never entered the block; and a caller
\* that has left the block holds no lock and has no registry entry.
C32_FileLockExcludes ==
  /\ \A l \in InBlock : \A o \in InBlock \ {l} :
       ~fl_exclusive[l] /\ ~fl_exclusive[o]
  /\ \A l \in Lockers :
       /\ fl_result[l] = "TimeoutError" => ~fl_entered[l]
       /\ fl_pc[l] # "block" => fl_held[l] = "none" /\ l \notin fl_registry
       /\ fl_pc[l] = "block" => fl_held[l] # "none" /\ l \in fl_registry

\* one caller timed out on an exclusive request while another, which had
\* the lock shared, has left its block by an exception
C32_Witness ==
  \E l \in Lockers : \E o \in Lockers \ {l} :
    /\ fl_result[l] = "TimeoutError" /\ fl_exclusive[l]
    /\ fl_result[o] = "raised" /\ ~fl_exclusive[o] /\ fl_entered[o]

(* ================= properties of concurrent durable writes ============ *)
\* writer w holds the lock and has its temp file in place
HoldsWithTemp(w) ==
  /\ as_lock = w
  /\ as_pc[w] \in {"write", "rename"}

\* C33: the durable file always holds a whole image, and while a writer
\* holds the lock with its temp file in place no step of another writer
\* removes or alters that temp file, so that the holder's rename finds it.
C33_DurableWriteAtomic ==
  [][/\ as_kb'.whole
     /\ \A w \in Savers :
          (HoldsWithTemp(w) /\ as_pc'[w] = as_pc[w]) =>
            as_temp' = as_temp /\ as_fd'[w] = as_fd[w]
     /\ \A w \in Savers :
          (as_pc[w] = "rename" /\ as_pc'[w] = "unlock") => ~as_raised'[w]
    ]_vars

(* ================= properties of wait_for_all_tasks =================== *)
\* C34: wait_for_all_tasks with a timeout does not go on waiting past it:
\* at the first test after the timeout has elapsed it returns, so the
\* time it has slept is never more than one sleep past the timeout; this
\* for every timeout, 0 included.
C34_WaitReturnsAtTimeout ==
  (c_pc = "wait" /\ c_timed) => c_elapsed <= c_timeout + 1

(* ===================== properties of append order ==================== *)
\* writer w, holding the write lock, extends the buffer it looked up
AppendExtends(w) == w_pc[w] = "extend" /\ w_pc'[w] = "finish"

\* C35: the records of an append_qa_pairs call go to the end of the active
\* buffer as one run in the order given, so that runs do not interleave
\* and follow one another in the order of the write lock.
C35_AppendOrderPreserved ==
  [][\A w \in Writers :
       AppendExtends(w) =>
         GetActiveBuffer' = GetActiveBuffer \o w_loc[w].qa_pairs
    ]_vars

(* ============ properties of concurrent _cleanup_completed_tasks ======= *)
\* C36: whichever threads run the cleanup, the callback of a task that
\* finished with a result is invoked at most once before and exactly once
\* after the task is recorded, and total_completed counts each recorded
\* task once.
C36_CompletionCountedOnce ==
  /\ \A t \in CleanupTasks :
       cu_calls[t] = IF t \in cu_completed THEN 1 ELSE 0
  /\ cu_total = Cardinality(cu_completed)

(* ================= properties of the terminal statuses ================ *)
\* get_task_status reports a terminal status for task t
ReportedTerminal(t) == GetTaskStatus(t) \in {"completed", "failed"}

\* C37: no task is in completed_tasks and in failed_tasks at once, and a
\* task reported 'completed' or 'failed' is reported so ever after; a task
\* with a retry queued or running is not reported 'failed'.
C37_TerminalStatusStable ==
  [][/\ ap_completed' \cap ap_failed' = {}
     /\ \A t \in 1..MaxTasks :
          /\ ReportedTerminal(t) => GetTaskStatus(t)' = GetTaskStatus(t)
          /\ (GetTaskStatus(t)' = "failed") =>
                /\ t \notin QueuedIds'
                /\ t \notin DOMAIN ap_active'
    ]_vars

(* ==================== properties of task custody ===================== *)
\* task t is in the queue, in the active set or recorded
Accounted(t) ==
  \/ t \in QueuedIds
  \/ t \in DOMAIN ap_active
  \/ t \in ap_completed
  \/ t \in ap_failed

\* C38: whenever the dispatcher is not in the middle of a step, every
\* task that submit_task has returned is in the queue, in the active set,
\* or recorded as completed or failed; this also while stop shuts the pool
\* down.
C38_NoTaskLost ==
  d_pc # "held" => \A t \in 1..ap_submitted : Accounted(t)

(* =================== properties of get_task_status ==================== *)
\* C39: get_task_status does not report 'not_found' for a task that
\* submit_task has returned, wherever the dispatcher is with the task.
C39_SubmittedTaskIsFound ==
  \A t \in 1..ap_submitted : GetTaskStatus(t) # "not_found"

(* ================= properties of persist and reload =================== *)
\* the question and answer texts of the records, in order
TextsOf(qa_pairs) ==
  [i \in 1..Len(qa_pairs) |-> <<qa_pairs[i].question, qa_pairs[i].answer>>]

\* C40: a store loaded from the file another store wrote holds as many
\* records as that store, with the same question and answer texts in the
\* same order; a second round trip changes no text.
C40_RoundTripKeepsTexts ==
  (rt_pc = "store" /\ rt_trips >= 1) =>
    /\ TextsOf(rt_buffer) = TextsOf(rt_orig)
    /\ TextsOf(rt_buffer) = TextsOf(rt_prev)

====
